---- MODULE Spec2Model ----
(***************************************************************************)
(* State-machine model of the trading-bot repository:                      *)
(*   - DerivClient (deriv_client.py): tick -> candle aggregation, streamed *)
(*     ohlc candles, history batches;                                      *)
(*   - strategy.py: indicator computation and the signal decision;         *)
(*   - BotsManager / TradingBot (bots_manager.py): per-bot state and loop  *)
(*     task;                                                               *)
(*   - Bot (bot.py): the flag-driven bot and its loop task.                *)
(* One symbol is tracked; prices, epochs and batches are drawn from small  *)
(* sets.                                                                   *)
(***************************************************************************)
EXTENDS Integers, Sequences, FiniteSets, TLC

VARIABLES
    candles_store,   \* DerivClient.candles_store[symbol]: gran -> sequence of candles
    build_candle,    \* DerivClient.build_candle[symbol]: gran -> builder state (registered grans only)
    last_tick,       \* DerivClient.last_tick[symbol]
    callbacks,       \* which of on_tick / on_candle / on_history_ready are installed
    events,          \* callback invocations made by the handler that ran last
    feed_op,         \* which handler ran last, and for which granularities its commit
                     \* was accepted or rejected
    ticks_history,   \* strategy.ticks_history (module global)
    variant,         \* which bot implementation runs: "bots_manager" or "bot"
    tb,              \* BotsManager.active_bots: bot id -> TradingBot fields
    bt,              \* the Bot objects of bot.py: bot id -> Bot fields
    tasks,           \* the asyncio tasks created for bot loops
    on_tick,         \* deriv.on_tick as bot.py sees it: None or the lambda of a Bot
    stop_waiting,    \* Bot.stop() calls suspended in "await self._task": bot id -> task
    sched_op,        \* the scheduler operation or task step that ran last
    conn,            \* DerivClient connection: flags, socket, listener, session history
    app,             \* main.py / app.py: BOT_STATUS, the published signal, the workers
    calc             \* the query applied last (strategy.py, get_latest_candles), its input
                     \* and result

feedVars == <<candles_store, build_candle, last_tick, callbacks, events, feed_op>>

botsVars == <<ticks_history, variant, tb, bt, tasks, on_tick, stop_waiting, sched_op>>

ctlVars == <<conn, app, calc>>

vars == <<candles_store, build_candle, last_tick, callbacks, events, feed_op,
          ticks_history, variant, tb, bt, tasks, on_tick, stop_waiting, sched_op,
          conn, app, calc>>

----------------------------------------------------------------------------
(* Bounds of the model *)

MaxEpoch == 3
MaxBatch == 2
MaxTasks == 2
MaxTrades == 2
MaxCloses == 1
MaxRing == 4

(* Python's None for an optional number (all modelled numbers are >= 0) *)
None == 0 - 1

Prices == {1, 2}
Epochs == 0..MaxEpoch
Grans  == {2}

----------------------------------------------------------------------------
(* deriv_client.py *)

HISTORY_CANDLES == 500

Candle(open_p, high, low, close, start_ts) ==
    [high |-> high, low |-> low, close |-> close, start_ts |-> start_ts, open |-> open_p]

(* candles the upstream can send in an ohlc message or in a history batch *)
CandleMsgs(gran) ==
    { Candle(1, 1, 1, 1, ts) : ts \in { e \in Epochs : e % gran = 0 } }

HistoryBatches(gran) == UNION { [1..n -> CandleMsgs(gran)] : n \in 0..MaxBatch }

DequeAppend_Unbounded(dq, c) == Append(dq, c)

(* deque(maxlen=HISTORY_CANDLES).append *)
DequeAppend(dq, c) ==
    IF Len(dq) >= HISTORY_CANDLES THEN Append(Tail(dq), c) ELSE Append(dq, c)

EmptyBuilder == [high |-> None, low |-> None, close |-> None, start_ts |-> None, open |-> None]

NewBucket(start_ts, quote) ==
    [high |-> quote, low |-> quote, close |-> quote, start_ts |-> start_ts, open |-> quote]

UpdateBucket_CloseOnly(state, quote) == [state EXCEPT !.close = quote]

UpdateBucket_NoLow(state, quote) ==
    [state EXCEPT !.close = quote,
                  !.high = IF quote > state.high THEN quote ELSE state.high]

UpdateBucket(state, quote) ==
    [state EXCEPT !.close = quote,
                  !.high = IF quote > state.high THEN quote ELSE state.high,
                  !.low = IF quote < state.low THEN quote ELSE state.low]

(* the guard with ">" for ">=": a candle of the same bucket as the last one is accepted *)
CommitRejected_Strict(dq, candle) ==
    Len(dq) > 0 /\ dq[Len(dq)].start_ts > candle.start_ts

(* the duplicate / replay guard of _commit_candle *)
CommitRejected(dq, candle) ==
    Len(dq) > 0 /\ dq[Len(dq)].start_ts >= candle.start_ts

(* _commit_candle: the buffer after the call *)
CommitBuffer(dq, candle) ==
    IF CommitRejected(dq, candle) THEN dq ELSE DequeAppend(dq, candle)

(* _commit_candle: the on_candle events of the call *)
CommitEvents(gran, dq, candle) ==
    IF CommitRejected(dq, candle) \/ "on_candle" \notin callbacks
    THEN {}
    ELSE {[start_ts |-> candle.start_ts, gran |-> gran, cb |-> "on_candle"]}

BucketStart(epoch, gran) == (epoch \div gran) * gran

(* which branch _process_tick takes for one registered granularity *)
TickBranch(state, start_ts) ==
    IF state.start_ts = None THEN "open"
    ELSE IF start_ts # state.start_ts THEN "roll"
    ELSE "update"

(* the builder of one granularity after _process_tick *)
TickBuilder(state, start_ts, quote) ==
    IF TickBranch(state, start_ts) = "update"
    THEN UpdateBucket(state, quote)
    ELSE NewBucket(start_ts, quote)

ClosedCandle(state) ==
    Candle(state.open, state.high, state.low, state.close, state.start_ts)

(* the registered granularities whose open bucket a tick at epoch closes *)
RollingGrans(epoch) ==
    { g \in DOMAIN build_candle :
        TickBranch(build_candle[g], BucketStart(epoch, g)) = "roll" }

(* the callback cb is installed and is one that raises an Exception when it is
   called *)
Raises(cb) == cb \in callbacks /\ "raising" \in callbacks

CallbackContained_Propagates(cb) == ~Raises(cb)

(* "try: self.on_...(...) except Exception: pass": the statement after the call
   is reached whether the callback returned or raised *)
CallbackContained(cb) == TRUE

(* the granularities for which _process_tick reaches the statements after its
   commit: those that commit nothing, and those whose commit returns *)
CommitReturns(g, epoch) ==
    \/ g \notin RollingGrans(epoch)
    \/ CommitRejected(candles_store[g], ClosedCandle(build_candle[g]))
    \/ CallbackContained("on_candle")

ProcessTick(quote, epoch) ==
    LET proceeds == CallbackContained("on_tick")
        rolling == IF proceeds THEN RollingGrans(epoch) ELSE {}
    IN
    /\ last_tick' = quote
    /\ build_candle' =
          [g \in DOMAIN build_candle |->
              IF proceeds /\ CommitReturns(g, epoch)
              THEN TickBuilder(build_candle[g], BucketStart(epoch, g), quote)
              ELSE build_candle[g]]
    /\ candles_store' =
          [g \in Grans |->
              IF g \in rolling
              THEN CommitBuffer(candles_store[g], ClosedCandle(build_candle[g]))
              ELSE candles_store[g]]
    /\ events' =
          (IF "on_tick" \in callbacks
           THEN {[start_ts |-> 0, gran |-> 0, cb |-> "on_tick"]} ELSE {})
          \cup UNION { CommitEvents(g, candles_store[g], ClosedCandle(build_candle[g])) :
                       g \in rolling }
    /\ feed_op' = [op |-> "tick",
                    committed |-> { g \in rolling :
                        ~CommitRejected(candles_store[g], ClosedCandle(build_candle[g])) },
                    rejected |-> { g \in rolling :
                        CommitRejected(candles_store[g], ClosedCandle(build_candle[g])) }]
    /\ UNCHANGED callbacks

(* _process_tick with no callback of a Bot installed *)
_process_tick(quote, epoch) ==
    /\ ProcessTick(quote, epoch)
    /\ UNCHANGED botsVars
    /\ UNCHANGED ctlVars

(* _process_official_candle reads open_time, open, high, low, close; the
   message's is_closed is carried and never read *)
ProcessOfficialCandle(gran, candle, is_closed) ==
    /\ candles_store' = [candles_store EXCEPT ![gran] = CommitBuffer(@, candle)]
    /\ events' = CommitEvents(gran, candles_store[gran], candle)
    /\ feed_op' = [op |-> "ohlc",
                    committed |-> IF CommitRejected(candles_store[gran], candle) THEN {} ELSE {gran},
                    rejected |-> IF CommitRejected(candles_store[gran], candle) THEN {gran} ELSE {}]
    /\ UNCHANGED <<build_candle, last_tick, callbacks>>

_process_official_candle(gran, candle, is_closed) ==
    /\ ProcessOfficialCandle(gran, candle, is_closed)
    /\ UNCHANGED botsVars
    /\ UNCHANGED ctlVars

(* "for c in data: dq.append(...)": the candles of data appended to dq one by
   one, in order; the batch is taken half by half, first half first, which
   keeps the evaluation shallow *)
RECURSIVE DequeExtend(_, _)
DequeExtend(dq, data) ==
    IF data = <<>> THEN dq
    ELSE IF Len(data) = 1 THEN DequeAppend(dq, data[1])
    ELSE LET mid == Len(data) \div 2
             left == DequeExtend(dq, SubSeq(data, 1, mid))
         IN  IF Len(left) = 0 THEN left
             ELSE DequeExtend(left, SubSeq(data, mid + 1, Len(data)))

ProcessHistoryCandles(gran, data) ==
    /\ IF data = <<>>
       THEN /\ UNCHANGED candles_store
            /\ events' = {}
       ELSE /\ candles_store' = [candles_store EXCEPT ![gran] = DequeExtend(<<>>, data)]
            /\ events' = IF "on_history_ready" \in callbacks
                         THEN {[start_ts |-> 0, gran |-> gran, cb |-> "on_history_ready"]}
                         ELSE {}
    /\ feed_op' = [op |-> "history", committed |-> {}, rejected |-> {}]
    /\ UNCHANGED <<build_candle, last_tick, callbacks>>

_process_history_candles(gran, data) ==
    /\ ProcessHistoryCandles(gran, data)
    /\ UNCHANGED botsVars
    /\ UNCHANGED ctlVars

ensure_candle_builder(gran) ==
    /\ build_candle' = [g \in DOMAIN build_candle \cup {gran} |->
                           IF g \in DOMAIN build_candle THEN build_candle[g] ELSE EmptyBuilder]
    /\ feed_op' = [op |-> "ensure", committed |-> {}, rejected |-> {}]
    /\ UNCHANGED <<candles_store, last_tick, callbacks, events>>
    /\ UNCHANGED botsVars
    /\ UNCHANGED ctlVars

(* the application installs a callback (plain attribute assignment) *)
SetCallbacks ==
    /\ callbacks = {}
    /\ callbacks' = {"on_tick", "on_candle", "on_history_ready"}
    /\ UNCHANGED <<candles_store, build_candle, last_tick, events, feed_op>>
    /\ UNCHANGED botsVars
    /\ UNCHANGED ctlVars

FeedNext ==
    \/ \E q \in Prices, e \in Epochs : _process_tick(q, e)
    \/ \E g \in Grans : \E c \in CandleMsgs(g) : \E closed \in BOOLEAN :
          _process_official_candle(g, c, closed)
    \/ \E g \in Grans : \E d \in HistoryBatches(g) : _process_history_candles(g, d)
    \/ \E g \in Grans : ensure_candle_builder(g)
    \/ SetCallbacks



----------------------------------------------------------------------------
(* strategy.py *)

RSI_PERIOD == 14
ADX_PERIOD == 14
EMA_FAST_PERIOD == 5
EMA_SLOW_PERIOD == 20
EMA_VERY_SLOW_PERIOD == 50
RSI_SELL_THRESHOLD == 70
RSI_BUY_THRESHOLD == 30
ADX_TREND_THRESHOLD == 20
MIN_TICKS_REQUIRED == 50
BB_PERIOD == 20
BB_STDDEV == 2

(* Floats are modelled in fixed point: a value v stands for v / Scale, and every
   division rounds down. *)
Scale == 10 * 10 * 10

(* np.nan, and Python's None as a value of its own *)
NaN == 0 - 2000000000
PyNone == [none |-> TRUE]

isnan(x) == x = NaN

Abs(x) == IF x < 0 THEN 0 - x ELSE x

(* seq[-n:] *)
LastN(seq, n) ==
    IF Len(seq) <= n THEN seq ELSE SubSeq(seq, Len(seq) - n + 1, Len(seq))

(* Series.ewm(alpha = num/den, adjust=False).mean(): y[i] = (1 - alpha) * y[i-1] +
   alpha * xs[i], folded over xs[lo..hi] from the mean y before lo. The range is
   folded half by half, left half first, which keeps the evaluation shallow; an
   undefined mean stays undefined. *)
RECURSIVE Ewm(_, _, _, _, _, _)
Ewm(xs, lo, hi, y, num, den) ==
    IF lo > hi \/ isnan(y) THEN y
    ELSE IF lo = hi THEN ((den - num) * y + num * xs[lo]) \div den
    ELSE LET mid == (lo + hi) \div 2
             left == Ewm(xs, lo, mid, y, num, den)
         IN  IF isnan(left) THEN NaN ELSE Ewm(xs, mid + 1, hi, left, num, den)

EwmLast(xs, num, den) == Ewm(xs, 2, Len(xs), xs[1], num, den)

Scaled(prices) == [i \in 1..Len(prices) |-> prices[i] * Scale]

calculate_ema(prices, period) ==
    IF Len(prices) < period THEN NaN
    ELSE EwmLast(Scaled(prices), 2, period + 1)

RECURSIVE SumSeq(_, _)
SumSeq(xs, i) == IF i > Len(xs) THEN 0 ELSE xs[i] + SumSeq(xs, i + 1)

(* the largest r with r * r <= v, searched in lo..hi *)
RECURSIVE ISqrt(_, _, _)
ISqrt(v, lo, hi) ==
    IF lo >= hi THEN lo
    ELSE LET mid == (lo + hi + 1) \div 2
         IN  IF mid * mid <= v THEN ISqrt(v, mid, hi) ELSE ISqrt(v, lo, mid - 1)

(* Series.std() of the last period prices: the sample deviation (ddof = 1),
   sqrt((n * sum(x^2) - sum(x)^2) / (n * (n - 1))), to 1/100 *)
calculate_stddev(prices, period) ==
    IF Len(prices) < period THEN NaN
    ELSE LET w == LastN(prices, period)
             n == Len(w)
             sq == [i \in 1..n |-> w[i] * w[i]]
             num == n * SumSeq(sq, 1) - SumSeq(w, 1) * SumSeq(w, 1)
         IN  ISqrt((num * 10000) \div (n * (n - 1)), 0, 40000) * (Scale \div 100)

(* delta.where(delta > 0, 0) and -delta.where(delta < 0, 0); the first delta is NaN *)
Gains(prices) ==
    [i \in 1..Len(prices) |->
        IF i > 1 /\ prices[i] > prices[i - 1] THEN (prices[i] - prices[i - 1]) * Scale ELSE 0]

Losses(prices) ==
    [i \in 1..Len(prices) |->
        IF i > 1 /\ prices[i] < prices[i - 1] THEN (prices[i - 1] - prices[i]) * Scale ELSE 0]

(* 100 - 100 / (1 + rs.fillna(0)) with rs = avg_gain / avg_loss in IEEE arithmetic:
   0/0 is NaN and is replaced by 0; g/0 is inf, and 100/(1 + inf) is 0 *)
RsiValue(avg_gain, avg_loss) ==
    IF avg_loss = 0
    THEN IF avg_gain = 0 THEN 0 ELSE 100 * Scale
    ELSE (100 * Scale * avg_gain) \div (avg_gain + avg_loss)

calculate_rsi(prices, period) ==
    IF Len(prices) < period * 2 THEN NaN
    ELSE RsiValue(EwmLast(Gains(prices), 1, period), EwmLast(Losses(prices), 1, period))

(* the ema of xs[lo..hi] and the sum of |x - ema| over it, added to the ema and
   the sum st holds for the elements before lo *)
RECURSIVE ResidueSum(_, _, _, _, _, _)
ResidueSum(xs, lo, hi, st, num, den) ==
    IF lo > hi \/ isnan(st.y) THEN st
    ELSE IF lo = hi
    THEN LET e == ((den - num) * st.y + num * xs[lo]) \div den
         IN  [y |-> e, sum |-> st.sum + Abs(xs[lo] - e)]
    ELSE LET mid == (lo + hi) \div 2
             left == ResidueSum(xs, lo, mid, st, num, den)
         IN  IF isnan(left.y) THEN left ELSE ResidueSum(xs, mid + 1, hi, left, num, den)

(* (prices - ema).abs().mean() * 10, capped at 45, over the last 50 prices *)
calculate_adx(prices, period) ==
    IF Len(prices) < period THEN NaN
    ELSE LET xs == Scaled(LastN(prices, 50))
             total == ResidueSum(xs, 2, Len(xs), [y |-> xs[1], sum |-> 0], 2, period + 1).sum
             adx_proxy == (total \div Len(xs)) * 10
         IN  IF adx_proxy < 45 * Scale THEN adx_proxy ELSE 45 * Scale

CalculateIndicators_Unguarded(hist) ==
    IF Len(hist) < 1 THEN PyNone
    ELSE LET prices == LastN(hist, 150)
             ema_slow == calculate_ema(prices, EMA_SLOW_PERIOD)
             stddev == calculate_stddev(prices, BB_PERIOD)
         IN  [ema_slow |-> ema_slow,
              last_price |-> prices[Len(prices)] * Scale,
              ema_fast |-> calculate_ema(prices, EMA_FAST_PERIOD),
              ema_very_slow |-> calculate_ema(prices, EMA_VERY_SLOW_PERIOD),
              rsi |-> calculate_rsi(prices, RSI_PERIOD),
              adx |-> calculate_adx(prices, ADX_PERIOD),
              bb_upper |-> IF isnan(ema_slow) \/ isnan(stddev) THEN NaN
                           ELSE ema_slow + stddev * BB_STDDEV,
              bb_lower |-> IF isnan(ema_slow) \/ isnan(stddev) THEN NaN
                           ELSE ema_slow - stddev * BB_STDDEV]

(* calculate_indicators() on the price list hist *)
CalculateIndicators(hist) ==
    IF Len(hist) < MIN_TICKS_REQUIRED THEN PyNone
    ELSE LET prices == LastN(hist, 150)
             ema_fast == calculate_ema(prices, EMA_FAST_PERIOD)
             ema_slow == calculate_ema(prices, EMA_SLOW_PERIOD)
             ema_very_slow == calculate_ema(prices, EMA_VERY_SLOW_PERIOD)
             adx == calculate_adx(prices, ADX_PERIOD)
             rsi == calculate_rsi(prices, RSI_PERIOD)
             stddev == calculate_stddev(prices, BB_PERIOD)
         IN  IF isnan(ema_very_slow) \/ isnan(stddev) \/ isnan(ema_fast)
                \/ isnan(ema_slow) \/ isnan(rsi) \/ isnan(adx)
             THEN PyNone
             ELSE [ema_slow |-> ema_slow,
                   last_price |-> prices[Len(prices)] * Scale,
                   ema_fast |-> ema_fast,
                   ema_very_slow |-> ema_very_slow,
                   rsi |-> rsi,
                   adx |-> adx,
                   bb_upper |-> ema_slow + stddev * BB_STDDEV,
                   bb_lower |-> ema_slow - stddev * BB_STDDEV]

Signal(action, probability, rule) ==
    [action |-> action, probability |-> probability, rule |-> rule]

MacroAbove_Always(ind) == TRUE

(* "if last_price > ema_very_slow" and "if last_price < ema_very_slow" *)
MacroAbove(ind) == ind.last_price > ind.ema_very_slow

MacroBelow(ind) == ind.last_price < ind.ema_very_slow

BandTouchUpper_Always(ind) == TRUE

(* "if last_price > bb_upper" and "if last_price < bb_lower" *)
BandTouchUpper(ind) == ind.last_price > ind.bb_upper

BandTouchLower(ind) == ind.last_price < ind.bb_lower

(* the decision of generate_signal on an indicator snapshot; rule names the branch *)
DecideSignal(ind) ==
    IF ind.adx > ADX_TREND_THRESHOLD * Scale
    THEN IF ind.ema_fast > ind.ema_slow
         THEN IF MacroAbove(ind)
              THEN Signal("CALL (COMPRA)", 90, "trend_confirmed")
              ELSE Signal("NEUTRO", 70, "trend_macro_warning")
         ELSE IF ind.ema_fast < ind.ema_slow
         THEN IF MacroBelow(ind)
              THEN Signal("PUT (VENDA)", 90, "trend_confirmed")
              ELSE Signal("NEUTRO", 70, "trend_macro_warning")
         ELSE Signal("NEUTRO", 60, "trend_awaiting_crossover")
    ELSE IF ind.rsi > RSI_SELL_THRESHOLD * Scale
         THEN IF BandTouchUpper(ind)
              THEN Signal("PUT (VENDA)", 95, "extreme_reversal")
              ELSE Signal("NEUTRO", 60, "rsi_extreme_no_band")
         ELSE IF ind.rsi < RSI_BUY_THRESHOLD * Scale
         THEN IF BandTouchLower(ind)
              THEN Signal("CALL (COMPRA)", 95, "extreme_reversal")
              ELSE Signal("NEUTRO", 60, "rsi_extreme_no_band")
         ELSE IF ind.ema_fast > ind.ema_slow
         THEN Signal("CALL (COMPRA)", 75, "crossover_fallback")
         ELSE IF ind.ema_fast < ind.ema_slow
         THEN Signal("PUT (VENDA)", 75, "crossover_fallback")
         ELSE IF ind.last_price > ind.ema_slow
         THEN Signal("CALL (COMPRA)", 65, "forced_direction")
         ELSE IF ind.last_price < ind.ema_slow
         THEN Signal("PUT (VENDA)", 65, "forced_direction")
         ELSE Signal("NEUTRO", 50, "indecision")

(* generate_signal(symbol, tf) on the price list hist *)
GenerateSignal(hist) ==
    IF CalculateIndicators(hist) = PyNone THEN PyNone
    ELSE DecideSignal(CalculateIndicators(hist))

(* no function of strategy.py has been applied *)
NoCalc == [fn |-> "none", input |-> PyNone, out |-> PyNone, prev |-> PyNone]

(* price lists the module global ticks_history may hold *)
ConstSeries(n, p) == [i \in 1..n |-> p]
RisingSeries(n) == [i \in 1..n |-> i]
FallingSeries(n) == [i \in 1..n |-> n + 1 - i]

TickHistories ==
    { <<>>, ConstSeries(49, 5), ConstSeries(50, 5), RisingSeries(60), FallingSeries(60) }

(* calculate_indicators() and generate_signal() on each price list the model
   uses, evaluated once *)
StrategyTable ==
    { [hist |-> h, indicators |-> CalculateIndicators(h), signal |-> GenerateSignal(h)] :
        h \in TickHistories }

IndicatorsOf(hist) == (CHOOSE r \in StrategyTable : r.hist = hist).indicators
SignalOf(hist) == (CHOOSE r \in StrategyTable : r.hist = hist).signal

----------------------------------------------------------------------------
(* asyncio tasks of the bot loops (bots_manager.py and bot.py) *)

BotIds == {1, 2}
TaskIds == 1..MaxTasks

FreeTask == [owner |-> None, pc |-> "free", cancel |-> FALSE]

(* asyncio.create_task: a task that has not run yet *)
NewTask(b) == [owner |-> b, pc |-> "new", cancel |-> FALSE]

FreeTaskIds == { t \in TaskIds : tasks[t].pc = "free" }

(* a task that can still run an iteration of its loop: not finished and not
   asked to cancel *)
Live(t) == tasks[t].pc \notin {"free", "done"} /\ ~tasks[t].cancel

(* Task.cancel(): a request, delivered when the task next runs; no effect on a
   finished task, whose slot is released once nothing refers to it *)
Cancelled(task) ==
    IF task.pc = "done" THEN FreeTask ELSE [task EXCEPT !.cancel = TRUE]

----------------------------------------------------------------------------
(* bots_manager.py *)

Symbols == {"R_100", "R_50"}
Timeframes == {60}

(* TradingBot.__init__; calls counts the invocations of client.buy *)
NewTradingBot(symbol, tf) ==
    [state |-> "INACTIVE", task |-> None, symbol |-> symbol, tf |-> tf, calls |-> 0,
     stats |-> [trades |-> 0, wins |-> 0, losses |-> 0]]

BotStates == {"ACTIVE", "INACTIVE", "PAUSED"}

ShouldCreate_Always(b, new_state) ==
    new_state = "ACTIVE"

(* state setter: "new_state == ACTIVE and self.current_run_task is None" *)
ShouldCreate(b, new_state) ==
    new_state = "ACTIVE" /\ tb[b].task = None

ShouldCancel_OnlyInactive(b, new_state) ==
    new_state = "INACTIVE" /\ tb[b].task # None

(* state setter: "new_state != ACTIVE and self.current_run_task" *)
ShouldCancel(b, new_state) ==
    new_state # "ACTIVE" /\ tb[b].task # None

CancelTargets_All(b) == { t \in TaskIds : tasks[t].pc # "free" }

(* the tasks the setter of bot b cancels *)
CancelTargets(b) == {tb[b].task}

(* TradingBot.state setter *)
SetState(b, new_state) ==
    IF ShouldCreate(b, new_state)
    THEN /\ FreeTaskIds # {}
         /\ LET t == CHOOSE x \in FreeTaskIds : \A y \in FreeTaskIds : x <= y
            IN  /\ tb' = [tb EXCEPT ![b].state = new_state, ![b].task = t]
                /\ tasks' = [tasks EXCEPT ![t] = NewTask(b)]
    ELSE IF ShouldCancel(b, new_state)
    THEN /\ tb' = [tb EXCEPT ![b].state = new_state, ![b].task = None]
         /\ tasks' = [t \in TaskIds |->
                         IF t \in CancelTargets(b) THEN Cancelled(tasks[t]) ELSE tasks[t]]
    ELSE /\ tb' = [tb EXCEPT ![b].state = new_state]
         /\ UNCHANGED tasks

create_bot(symbol, tf) ==
    /\ variant = "bots_manager"
    /\ DOMAIN tb # BotIds
    /\ LET b == CHOOSE x \in BotIds \ DOMAIN tb : \A y \in BotIds \ DOMAIN tb : x <= y
       IN  /\ tb' = [x \in DOMAIN tb \cup {b} |-> IF x = b THEN NewTradingBot(symbol, tf) ELSE tb[x]]
           /\ sched_op' = [op |-> "create_bot", prev |-> "", bot |-> b, arg |-> ""]
    /\ UNCHANGED <<ticks_history, variant, bt, tasks, on_tick, stop_waiting>>
    /\ UNCHANGED feedVars
    /\ UNCHANGED ctlVars

toggle_bot_state(bot_id, new_state) ==
    /\ variant = "bots_manager"
    /\ IF bot_id \in DOMAIN tb
       THEN /\ SetState(bot_id, new_state)
            /\ sched_op' = [op |-> "toggle_bot_state", prev |-> tb[bot_id].state,
                            bot |-> bot_id, arg |-> new_state]
       ELSE /\ sched_op' = [op |-> "toggle_bot_state", prev |-> "unknown",
                            bot |-> bot_id, arg |-> new_state]
            /\ UNCHANGED <<tb, tasks>>
    /\ UNCHANGED <<ticks_history, variant, bt, on_tick, stop_waiting>>
    /\ UNCHANGED feedVars
    /\ UNCHANGED ctlVars

(* "while self.is_active": where the loop goes when it comes round *)
LoopCheck(b) == IF tb[b].state = "ACTIVE" THEN "sleep_tf" ELSE "done"

(* "signal_data = generate_signal(indicators)": one positional argument passed to
   generate_signal(symbol, tf), which Python refuses with TypeError before the
   body runs *)
RunLoopSignalCall(ind) == [raised |-> TRUE, value |-> PyNone]

OnLoopException_Break == "done"

(* "except Exception": the handler prints and sleeps, then the loop comes round *)
OnLoopException == "sleep_err"

(* one iteration of run_loop after "await asyncio.sleep(self.tf)" returned, up to
   the next suspension point: the next pc, and whether client.buy was invoked *)
IterationBody(b) ==
    LET indicators == IndicatorsOf(ticks_history)
    IN  IF indicators = PyNone
        THEN [pc |-> LoopCheck(b), call |-> FALSE, tag |-> "insufficient"]
        ELSE LET r == RunLoopSignalCall(indicators)
             IN  IF r.raised
                 THEN [pc |-> OnLoopException, call |-> FALSE, tag |-> "raised"]
                 ELSE IF r.value # PyNone /\ r.value.action # ""
                 THEN [pc |-> "await_buy", call |-> TRUE, tag |-> "buy"]
                 ELSE IF r.value = PyNone
                 THEN [pc |-> OnLoopException, call |-> FALSE, tag |-> "raised"]
                 ELSE [pc |-> LoopCheck(b), call |-> FALSE, tag |-> "no_signal"]

BuyOutcomes == {"contract", "none", "raise"}

AfterExecution_NoCooldown(b) == LoopCheck(b)

(* "await asyncio.sleep(duration + 1)" once client.buy has answered *)
AfterExecution(b) == "sleep_cooldown"

(* what a step of the run_loop task of bot b does at pc, not being cancelled;
   buy_outcome is what client.buy answers when the step resumes from it *)
RunLoopStep(b, pc, buy_outcome) ==
    CASE pc = "new" -> [pc |-> LoopCheck(b), call |-> FALSE, tag |-> "started", trade |-> FALSE]
      [] pc = "sleep_tf" ->
            [pc |-> IterationBody(b).pc, call |-> IterationBody(b).call,
             tag |-> IterationBody(b).tag, trade |-> FALSE]
      [] pc = "await_buy" ->
            IF buy_outcome = "raise"
            THEN [pc |-> OnLoopException, call |-> FALSE, tag |-> "raised", trade |-> FALSE]
            ELSE [pc |-> AfterExecution(b), call |-> FALSE,
                  tag |-> "bought", trade |-> (buy_outcome = "contract")]
      [] pc \in {"sleep_cooldown", "sleep_err"} ->
            [pc |-> LoopCheck(b), call |-> FALSE, tag |-> "woke", trade |-> FALSE]

(* a finished task: its slot is released unless a handle still refers to it *)
Finished(t, referenced) ==
    IF referenced THEN [tasks[t] EXCEPT !.pc = "done"] ELSE FreeTask

(* the event loop runs the run_loop task t up to its next suspension point; an
   answer of client.buy is drawn only by the step that resumes from it *)
TaskStep(t, buy_outcome) ==
    /\ variant = "bots_manager"
    /\ tasks[t].pc \notin {"free", "done"}
    /\ (tasks[t].pc = "await_buy" /\ ~tasks[t].cancel) \/ buy_outcome = "contract"
    /\ LET b == tasks[t].owner
           r == IF tasks[t].cancel
                THEN [pc |-> "done", call |-> FALSE, tag |-> "cancelled", trade |-> FALSE]
                ELSE RunLoopStep(b, tasks[t].pc, buy_outcome)
       IN  /\ r.call => tb[b].calls < MaxTrades
           /\ tasks' = [tasks EXCEPT ![t] =
                           IF r.pc = "done" THEN Finished(t, tb[b].task = t)
                           ELSE [@ EXCEPT !.pc = r.pc]]
           /\ tb' = [tb EXCEPT ![b].calls = IF r.call THEN @ + 1 ELSE @,
                               ![b].stats.trades = IF r.trade THEN @ + 1 ELSE @]
           /\ sched_op' = [op |-> "step", prev |-> r.tag, bot |-> b, arg |-> tasks[t].pc]
    /\ UNCHANGED <<ticks_history, variant, bt, on_tick, stop_waiting>>
    /\ UNCHANGED feedVars
    /\ UNCHANGED ctlVars

----------------------------------------------------------------------------
(* bot.py *)

(* Bot.__init__ *)
NewBot(symbol, tf) ==
    [task |-> None, symbol |-> symbol, tf |-> tf,
     stats |-> [trades |-> 0, wins |-> 0, losses |-> 0],
     active |-> FALSE, original_tick_cb |-> None, closes |-> 0]

(* the tasks some handle or some suspended stop() still refers to, t excepted
   for bot b *)
BotRefers(t) ==
    \/ \E b \in BotIds : bt[b].task = t
    \/ \E b \in DOMAIN stop_waiting : stop_waiting[b] = t

(* Bot.start *)
start(b) ==
    /\ variant = "bot"
    /\ IF ~bt[b].active
       THEN /\ LET old == bt[b].task
                   reusable == FreeTaskIds \cup
                       (IF old # None /\ tasks[old].pc = "done"
                           /\ ~(\E w \in DOMAIN stop_waiting : stop_waiting[w] = old)
                        THEN {old} ELSE {})
               IN  /\ reusable # {}
                   /\ LET t == CHOOSE x \in reusable : \A y \in reusable : x <= y
                      IN  /\ bt' = [bt EXCEPT ![b].active = TRUE, ![b].task = t]
                          /\ tasks' = [x \in TaskIds |->
                                          IF x = t THEN NewTask(b)
                                          ELSE IF x = old /\ tasks[old].pc = "done"
                                                  /\ ~(\E w \in DOMAIN stop_waiting :
                                                          stop_waiting[w] = old)
                                          THEN FreeTask
                                          ELSE tasks[x]]
       ELSE UNCHANGED <<bt, tasks>>
    /\ sched_op' = [op |-> "start", prev |-> IF bt[b].active THEN "active" ELSE "inactive", bot |-> b,
                    arg |-> ""]
    /\ UNCHANGED <<ticks_history, variant, tb, on_tick, stop_waiting>>
    /\ UNCHANGED feedVars
    /\ UNCHANGED ctlVars

(* Bot.stop up to "await self._task", which suspends unless the task has already
   finished; one stop() per bot is in progress at a time *)
stop(b) ==
    /\ variant = "bot"
    /\ b \notin DOMAIN stop_waiting
    /\ bt' = [bt EXCEPT ![b].active = FALSE]
    /\ IF bt[b].task # None /\ tasks[bt[b].task].pc # "done"
       THEN /\ tasks' = [tasks EXCEPT ![bt[b].task].cancel = TRUE]
            /\ stop_waiting' = [x \in DOMAIN stop_waiting \cup {b} |->
                                   IF x = b THEN bt[b].task ELSE stop_waiting[x]]
       ELSE UNCHANGED <<tasks, stop_waiting>>
    /\ sched_op' = [op |-> "stop", prev |-> IF bt[b].active THEN "active" ELSE "inactive", bot |-> b,
                    arg |-> ""]
    /\ UNCHANGED <<ticks_history, variant, tb, on_tick>>
    /\ UNCHANGED feedVars
    /\ UNCHANGED ctlVars

(* Bot.stop resumes once the awaited task has finished; "except: pass" *)
stop_returns(b) ==
    /\ variant = "bot"
    /\ b \in DOMAIN stop_waiting
    /\ tasks[stop_waiting[b]].pc = "done"
    /\ stop_waiting' = [x \in DOMAIN stop_waiting \ {b} |-> stop_waiting[x]]
    /\ tasks' = [tasks EXCEPT ![stop_waiting[b]] =
                    IF bt[b].task = stop_waiting[b]
                       \/ \E w \in DOMAIN stop_waiting \ {b} : stop_waiting[w] = stop_waiting[b]
                    THEN @ ELSE FreeTask]
    /\ sched_op' = [op |-> "stop_returns", prev |-> "", bot |-> b, arg |-> ""]
    /\ UNCHANGED <<ticks_history, variant, tb, bt, on_tick>>
    /\ UNCHANGED feedVars
    /\ UNCHANGED ctlVars

(* "action, prob, reason = generate_signal(closes, self.policy)": generate_signal
   returns None or a dict of seven keys, and neither unpacks into three names
   (TypeError, ValueError) *)
UnpackSignal(value) == [action |-> "", raised |-> TRUE, prob |-> 0]

SubscribeOutcomes == {"ok", "raise"}

(* lines 41-54 and the while test after them, given what line 39 unpacked: a
   missing action skips the trade, anything else counts one *)
BotLoopBody(b, u) ==
    LET round == IF bt[b].active
                 THEN [cb |-> "keep", pc |-> "sleep_tf", tag |-> "woke", trade |-> FALSE]
                 ELSE [cb |-> "restore", pc |-> "done", tag |-> "exited", trade |-> FALSE]
    IN  IF u.raised
        THEN [cb |-> "keep", pc |-> "done", tag |-> "raised", trade |-> FALSE]
        ELSE IF u.action = ""
        THEN [round EXCEPT !.tag = "no_signal"]
        ELSE [round EXCEPT !.trade = TRUE, !.tag = "traded"]

CountTrade_WinsOnly(stats, win) ==
    [trades |-> stats.trades + 1,
     wins |-> IF win THEN stats.wins + 1 ELSE stats.wins,
     losses |-> stats.losses]

(* lines 46-52: trades += 1, then wins += 1 or losses += 1, with no await
   between them *)
CountTrade(stats, win) ==
    [trades |-> stats.trades + 1,
     wins |-> IF win THEN stats.wins + 1 ELSE stats.wins,
     losses |-> IF win THEN stats.losses ELSE stats.losses + 1]

(* what a step of the Bot.loop task of bot b does at pc, not being cancelled:
   the next pc, whether on_tick is replaced or restored, whether a trade is
   counted; win is the draw of random.random() < prob *)
BotLoopStep(b, pc, outcome, win) ==
        CASE pc = "new" ->
                [cb |-> "keep", pc |-> "await_subscribe", tag |-> "started", trade |-> FALSE]
          [] pc = "await_subscribe" ->
                IF outcome = "raise"
                THEN [cb |-> "keep", pc |-> "done", tag |-> "raised", trade |-> FALSE]
                ELSE IF bt[b].active
                THEN [cb |-> "install", pc |-> "sleep_tf", tag |-> "subscribed", trade |-> FALSE]
                ELSE [cb |-> "keep", pc |-> "done", tag |-> "exited", trade |-> FALSE]
          [] pc = "sleep_tf" -> BotLoopBody(b, UnpackSignal(SignalOf(ticks_history)))

(* the effect r of a step of the Bot.loop task t on the task, its Bot and the
   client's on_tick *)
BotTaskEffect(t, r, win) ==
    LET b == tasks[t].owner
    IN  /\ r.trade => bt[b].stats.trades < MaxTrades
        /\ tasks' = [tasks EXCEPT ![t] =
                        IF r.pc = "done" THEN Finished(t, BotRefers(t))
                        ELSE [@ EXCEPT !.pc = r.pc]]
        /\ bt' = [bt EXCEPT
                    ![b].original_tick_cb = IF r.cb = "install" THEN on_tick ELSE @,
                    ![b].stats = IF r.trade THEN CountTrade(@, win) ELSE @]
        /\ on_tick' = CASE r.cb = "install" -> b
                        [] r.cb = "restore" -> bt[b].original_tick_cb
                        [] OTHER -> on_tick
        /\ sched_op' = [op |-> "step", prev |-> r.tag, bot |-> b, arg |-> ""]
        /\ UNCHANGED <<ticks_history, variant, tb, stop_waiting>>
        /\ UNCHANGED feedVars
        /\ UNCHANGED ctlVars

(* the event loop runs the Bot.loop task t up to its next suspension point; the
   answer of subscribe and the draw of random.random() are drawn only by the
   steps that consume them *)
BotTaskStep(t, outcome, win) ==
    /\ variant = "bot"
    /\ tasks[t].pc \notin {"free", "done"}
    /\ (tasks[t].pc = "await_subscribe" /\ ~tasks[t].cancel) \/ outcome = "ok"
    /\ (tasks[t].pc = "sleep_tf" /\ ~tasks[t].cancel) \/ win
    /\ BotTaskEffect(t, IF tasks[t].cancel
                        THEN [cb |-> "keep", pc |-> "done", tag |-> "cancelled", trade |-> FALSE]
                        ELSE BotLoopStep(tasks[t].owner, tasks[t].pc, outcome, win), win)

----------------------------------------------------------------------------
(* deriv_client.py: connection, authorisation, subscriptions, listener *)

Tokens == {"valid", "rejected"}

(* DerivClient.__init__. is_connected, authorized, ws, token and listener are
   the object's fields (listener is _listener_task: "none", "running" or
   "done"); pc is the position of a caller inside connect(); subs, ever_subs,
   history_loaded, ticks_seen and op record the session's history: the streams
   requested on the current socket, the streams ever requested, the
   granularities whose history arrived on the current socket, the ticks
   processed (saturating at MIN_TICKS_REQUIRED) and the last operation. pc2 is
   the position of a second caller whose connect() overlaps the first; sock
   names the socket self.ws refers to (0: none; 1, 2: the one the first, the
   second call opened), handle the call that created the task _listener_task
   refers to, and reads holds the listener tasks alive, each with the socket of
   the recv() it is suspended in *)
NewClient ==
    [op |-> "init", pc |-> "idle", is_connected |-> FALSE, authorized |-> FALSE,
     ws |-> "none", token |-> "none",
     listener |-> "none", subs |-> {}, ever_subs |-> {}, history_loaded |-> {},
     ticks_seen |-> 0,
     pc2 |-> "idle", sock |-> 0, handle |-> 0, reads |-> {}]

ConnIdle == UNCHANGED <<feedVars, botsVars, app, calc>>

(* connect(), up to the await of websockets.connect; one caller at a time *)
connect(token) ==
    /\ conn.pc = "idle"
    /\ conn' = IF conn.is_connected
               THEN [conn EXCEPT !.op = "connect_noop"]
               ELSE [conn EXCEPT !.token = token, !.pc = "connecting", !.op = "connect"]
    /\ ConnIdle

(* websockets.connect returns a socket or raises; then _authorize clears the
   flag and sends the token *)
ConnectOpened(ok) ==
    /\ conn.pc = "connecting"
    /\ conn' = IF ok
               THEN [conn EXCEPT !.ws = "open", !.sock = 1, !.is_connected = TRUE,
                                 !.authorized = FALSE, !.pc = "authorizing",
                                 !.subs = {}, !.history_loaded = {},
                                 !.op = "opened"]
               ELSE [conn EXCEPT !.is_connected = FALSE, !.pc = "idle",
                                 !.op = "open_failed"]
    /\ ConnIdle

AuthAnswers == {"authorize", "error", "unexpected", "timeout", "closed"}

(* what the server can answer to a token *)
AnswersTo(token) ==
    IF token = "valid" THEN {"authorize", "unexpected", "timeout"}
    ELSE {"error", "timeout"}

(* the listener tasks left once the socket self.ws refers to is closed: recv()
   on it raises ConnectionClosed and the loop of the task ends *)
ReadersElsewhere == { r \in conn.reads : r.sock # conn.sock }

(* _listener_task after the tasks in gone have ended *)
HandleAfter(gone) ==
    IF conn.listener = "none" THEN "none"
    ELSE IF conn.listener = "done" \/ \E r \in gone : r.task = conn.handle THEN "done"
    ELSE "running"

(* the answers the call that opened socket s can receive: on a socket closed
   meanwhile ws.recv() raises, which _authorize catches *)
AnswersOn(s) ==
    IF conn.sock = s /\ conn.ws # "open" THEN {"closed"} ELSE AnswersTo(conn.token)

(* the rest of _authorize and of connect() for the call c: "if self.authorized"
   reads the flag of the object; the listener is created for an authorised
   session, otherwise self.ws is closed *)
Authorized(c, answer) ==
    IF answer = "authorize" \/ conn.authorized
    THEN [conn EXCEPT !.authorized = TRUE, !.listener = "running", !.handle = c,
                      !.reads = @ \cup {[task |-> c, sock |-> conn.sock]},
                      !.op = "authorized"]
    ELSE [conn EXCEPT !.ws = "closed", !.is_connected = FALSE,
                      !.reads = ReadersElsewhere,
                      !.listener = HandleAfter(conn.reads \ ReadersElsewhere),
                      !.op = "auth_failed"]

AuthorizeAnswered(answer) ==
    /\ conn.pc = "authorizing"
    /\ answer \in AnswersOn(1)
    /\ conn' = [Authorized(1, answer) EXCEPT !.pc = "idle"]
    /\ ConnIdle

CanSubscribe == conn.is_connected /\ conn.authorized /\ conn.ws # "none"

subscribe_ticks ==
    /\ conn' = IF CanSubscribe
               THEN [conn EXCEPT !.subs = @ \cup {"ticks"},
                                 !.ever_subs = @ \cup {"ticks"}, !.op = "subscribe"]
               ELSE [conn EXCEPT !.op = "subscribe_raised"]
    /\ ConnIdle

subscribe_candles_history ==
    /\ conn' = IF CanSubscribe
               THEN [conn EXCEPT !.subs = @ \cup {"candles"},
                                 !.ever_subs = @ \cup {"candles"}, !.op = "subscribe"]
               ELSE [conn EXCEPT !.op = "subscribe_raised"]
    /\ ConnIdle

(* the listener is suspended in ws.recv() of a socket the server still serves *)
Listening == conn.listener = "running" /\ conn.is_connected /\ conn.ws = "open"

CountTick(n) == IF n < MIN_TICKS_REQUIRED THEN n + 1 ELSE n

ListenerTick(quote, epoch) ==
    /\ Listening
    /\ "ticks" \in conn.subs
    /\ ProcessTick(quote, epoch)
    /\ conn' = [conn EXCEPT !.ticks_seen = CountTick(@), !.op = "recv_tick"]
    /\ UNCHANGED <<botsVars, app, calc>>

ListenerOhlc(gran, candle, is_closed) ==
    /\ Listening
    /\ "candles" \in conn.subs
    /\ ProcessOfficialCandle(gran, candle, is_closed)
    /\ conn' = [conn EXCEPT !.op = "recv_ohlc"]
    /\ UNCHANGED <<botsVars, app, calc>>

ListenerHistory(gran, data) ==
    /\ Listening
    /\ "candles" \in conn.subs
    /\ data # <<>>
    /\ ProcessHistoryCandles(gran, data)
    /\ conn' = [conn EXCEPT !.history_loaded = @ \cup {gran}, !.op = "recv_history"]
    /\ UNCHANGED <<botsVars, app, calc>>

(* ws.recv() raises ConnectionClosed: the loop clears is_connected and ends;
   authorized keeps its value *)
ServerClose ==
    /\ Listening
    /\ conn' = [conn EXCEPT !.is_connected = FALSE,
                            !.listener = HandleAfter(conn.reads \ ReadersElsewhere),
                            !.reads = ReadersElsewhere,
                            !.ws = "closed", !.subs = {}, !.op = "server_close"]
    /\ ConnIdle

(* DerivClient.stop: the task _listener_task refers to is cancelled and self.ws
   is closed *)
client_stop ==
    /\ conn' = [conn EXCEPT !.is_connected = FALSE,
                            !.listener = IF @ = "none" THEN "none" ELSE "done",
                            !.reads = { r \in ReadersElsewhere : r.task # conn.handle },
                            !.ws = IF @ = "none" THEN "none" ELSE "closed",
                            !.subs = {}, !.op = "stop"]
    /\ ConnIdle

(* main.py, app.py: the state shared by the HTTP handlers and the workers *)
ThreadIds == {1, 2}

(* a worker thread: pc, token, trend and auth_failed are the thread's position,
   argument, local and what it met; stopped and latest record the session's
   history: a stop command came while the thread was alive, and no start has
   been accepted since the one that created it *)
FreeWorker ==
    [pc |-> "free", token |-> "none", trend |-> "NEUTRA", auth_failed |-> FALSE,
     stopped |-> FALSE, latest |-> FALSE]

NewApp(flavor) ==
    [flavor |-> flavor, status |-> "OFF", direction |-> "AGUARDANDO",
     last_cmd |-> "none", workers |-> [w \in ThreadIds |-> FreeWorker]]

ApiTokens == {"valid", "rejected", "short", ""}

Actions == {"start", "stop"}

Trends == {"NEUTRA", "CALL", "PUT"}

FreeSlots == { w \in ThreadIds : app.workers[w].pc = "free" }

(* threading.Thread(target = deriv_bot_core_logic, ...).start() *)
Spawn(pc, api_token) ==
    [w \in ThreadIds |->
        IF w = (CHOOSE x \in FreeSlots : TRUE)
        THEN [pc |-> pc, token |-> api_token, trend |-> "NEUTRA", auth_failed |-> FALSE,
              stopped |-> FALSE, latest |-> TRUE]
        ELSE [app.workers[w] EXCEPT !.latest = FALSE]]

(* the threads alive when a stop command is handled *)
StopSeen ==
    [w \in ThreadIds |->
        IF app.workers[w].pc = "free" THEN app.workers[w]
        ELSE [app.workers[w] EXCEPT !.stopped = TRUE]]

(* the thread returned; what it met stays known until its slot is used again *)
Exited(w) == [FreeWorker EXCEPT !.auth_failed = app.workers[w].auth_failed]

AppIdle == UNCHANGED <<feedVars, botsVars, conn, calc>>

(* main.py control_bot: the signal is reset before the token is looked at *)
control_bot(action, api_token) ==
    /\ app.flavor = "main.py"
    /\ IF action = "start" /\ app.status # "ON"
       THEN IF api_token = "" \/ api_token = "short"
            THEN app' = [app EXCEPT !.direction = "AGUARDANDO", !.last_cmd = "start"]
            ELSE /\ FreeSlots # {}
                 /\ app' = [app EXCEPT !.direction = "AGUARDANDO", !.last_cmd = "start",
                                       !.status = "ON",
                                       !.workers = Spawn("loop", api_token)]
       ELSE IF action = "stop" /\ app.status = "ON"
       THEN app' = [app EXCEPT !.status = "OFF", !.direction = "OFF",
                               !.last_cmd = "stop", !.workers = StopSeen]
       ELSE UNCHANGED app
    /\ AppIdle

(* app.py control *)
control(action, api_token) ==
    /\ app.flavor = "app.py"
    /\ IF action = "start"
       THEN IF app.status = "OFF"
            THEN /\ FreeSlots # {}
                 /\ app' = [app EXCEPT !.status = "ON", !.last_cmd = "start",
                                       !.workers = Spawn("connect", api_token)]
            ELSE UNCHANGED app
       ELSE app' = [app EXCEPT !.status = "OFF", !.last_cmd = "stop",
                               !.workers = StopSeen]
    /\ AppIdle

WorkerOutcomes == {"ok", "auth_error", "io_error", "tick", "other", "expired"}

(* what the upstream can answer to an authorize request carrying the token *)
ConnectOutcomes(api_token) ==
    IF api_token = "valid" THEN {"ok", "io_error"} ELSE {"auth_error", "io_error"}

(* the outcomes a step of a worker at pc draws *)
Consumed(pc, api_token) ==
    CASE pc = "connect" -> ConnectOutcomes(api_token)
      [] pc = "analysis" -> {"ok", "io_error"}
      [] pc = "fetch" -> {"ok", "other", "io_error"}
      [] pc = "monitor_recv" -> {"tick", "other", "expired", "io_error"}
      [] OTHER -> {"ok"}

(* main.py deriv_bot_core_logic with monitor_ticks_and_signal: the thread w
   runs from one access of the shared state to the next. The test of "while
   BOT_STATUS == ON" and the assignment of the outer "finally" are two accesses,
   between which other threads run *)
MainWorkerStep(w, outcome, trend) ==
    LET me == app.workers[w]
        at(pc) == [app.workers EXCEPT ![w].pc = pc]
    IN
    /\ app.flavor = "main.py"
    /\ me.pc # "free"
    /\ outcome \in Consumed(me.pc, me.token)
    /\ (me.pc = "analysis" /\ outcome = "ok") \/ trend = "NEUTRA"
    /\ app' =
         CASE me.pc = "loop" ->
                IF app.status = "ON"
                THEN [app EXCEPT !.workers = at("connect")]
                ELSE [app EXCEPT !.workers = at("finally")]
           [] me.pc = "finally" ->
                [app EXCEPT !.status = "OFF", !.workers[w] = Exited(w)]
           [] me.pc = "connect" ->
                IF outcome = "ok" THEN [app EXCEPT !.workers = at("analysis")]
                ELSE [app EXCEPT !.workers[w].pc = "sleep10",
                                 !.workers[w].auth_failed = @ \/ outcome = "auth_error"]
           [] me.pc = "analysis" ->
                IF outcome # "ok" THEN [app EXCEPT !.workers = at("sleep10")]
                ELSE IF trend = "NEUTRA"
                THEN [app EXCEPT !.direction = "NEUTRA", !.workers = at("sleep90")]
                ELSE [app EXCEPT !.workers[w].pc = "monitor",
                                 !.workers[w].trend = trend]
           [] me.pc = "monitor" ->
                IF app.status = "ON"
                THEN [app EXCEPT !.workers = at("monitor_recv")]
                ELSE [app EXCEPT !.workers = at("sleep90")]
           [] me.pc = "monitor_recv" ->
                CASE outcome = "expired" ->
                       [app EXCEPT !.direction = "EXPIRADO", !.workers = at("sleep90")]
                  [] outcome = "tick" ->
                       [app EXCEPT !.direction = me.trend, !.workers = at("sleep90")]
                  [] outcome = "other" -> [app EXCEPT !.workers = at("monitor")]
                  [] OTHER -> [app EXCEPT !.workers = at("sleep90")]
           [] OTHER -> [app EXCEPT !.workers = at("loop")]
    /\ AppIdle

(* app.py deriv_bot_core_logic *)
AppWorkerStep(w, outcome, trend) ==
    LET me == app.workers[w]
        at(pc) == [app.workers EXCEPT ![w].pc = pc]
    IN
    /\ app.flavor = "app.py"
    /\ me.pc # "free"
    /\ outcome \in Consumed(me.pc, me.token)
    /\ (me.pc = "fetch" /\ outcome = "ok") \/ trend = "NEUTRA"
    /\ app' =
         CASE me.pc = "connect" ->
                IF outcome = "ok" THEN [app EXCEPT !.workers = at("loop")]
                ELSE [app EXCEPT !.status = "OFF",
                                 !.workers[w] = [FreeWorker EXCEPT !.auth_failed =
                                                    outcome = "auth_error"]]
           [] me.pc = "loop" ->
                IF app.status = "ON"
                THEN [app EXCEPT !.workers = at("fetch")]
                ELSE [app EXCEPT !.workers[w] = Exited(w)]
           [] me.pc = "fetch" ->
                CASE outcome = "ok" ->
                       [app EXCEPT !.direction = trend, !.workers = at("sleep20")]
                  [] outcome = "other" -> [app EXCEPT !.workers = at("sleep20")]
                  [] OTHER -> [app EXCEPT !.status = "OFF", !.workers[w] = Exited(w)]
           [] OTHER -> [app EXCEPT !.workers = at("loop")]
    /\ AppIdle

----------------------------------------------------------------------------
(* Specifications *)

(* a client just constructed; no bot exists and no price has been recorded *)
FeedInit ==
    /\ candles_store = [g \in Grans |-> <<>>]
    /\ build_candle = [g \in {} |-> EmptyBuilder]
    /\ last_tick = None
    /\ callbacks = {}
    /\ events = {}
    /\ feed_op = [op |-> "init", committed |-> {}, rejected |-> {}]
    /\ conn = NewClient
    /\ app = NewApp("main.py")
    /\ calc = NoCalc
    /\ ticks_history = <<>>
    /\ variant = "bots_manager"
    /\ tb = [b \in {} |-> NewTradingBot("R_100", 60)]
    /\ bt = [b \in BotIds |-> NewBot("R_100", 60)]
    /\ tasks = [t \in TaskIds |-> FreeTask]
    /\ on_tick = None
    /\ stop_waiting = [b \in {} |-> None]
    /\ sched_op = [op |-> "init", prev |-> "", bot |-> None, arg |-> ""]

(* a manager without bots, or two Bots not started, over some recorded prices;
   the client just constructed *)
BotsInit ==
    /\ ticks_history \in TickHistories
    /\ variant \in {"bots_manager", "bot"}
    /\ tb = [b \in {} |-> NewTradingBot("R_100", 60)]
    /\ bt = [b \in BotIds |-> NewBot("R_100", 60)]
    /\ tasks = [t \in TaskIds |-> FreeTask]
    /\ on_tick = None
    /\ stop_waiting = [b \in {} |-> None]
    /\ sched_op = [op |-> "init", prev |-> "", bot |-> None, arg |-> ""]
    /\ candles_store = [g \in Grans |-> <<>>]
    /\ build_candle = [g \in {} |-> EmptyBuilder]
    /\ last_tick = None
    /\ callbacks = {}
    /\ events = {}
    /\ feed_op = [op |-> "init", committed |-> {}, rejected |-> {}]
    /\ conn = NewClient
    /\ app = NewApp("main.py")
    /\ calc = NoCalc

BotsNext ==
    \/ \E symbol \in Symbols, tf \in Timeframes : create_bot(symbol, tf)
    \/ \E b \in BotIds, st \in BotStates : toggle_bot_state(b, st)
    \/ \E t \in TaskIds, o \in BuyOutcomes : TaskStep(t, o)
    \/ \E b \in BotIds : start(b)
    \/ \E b \in BotIds : stop(b)
    \/ \E b \in BotIds : stop_returns(b)
    \/ \E t \in TaskIds, o \in SubscribeOutcomes, win \in BOOLEAN : BotTaskStep(t, o, win)

(* the candle aggregation of DerivClient *)
SpecFeed == FeedInit /\ [][FeedNext]_vars

(* the bot schedulers: BotsManager with its TradingBots, or the Bots of bot.py *)
SpecBots == BotsInit /\ [][BotsNext]_vars

----------------------------------------------------------------------------
(* Claims about the candle aggregation (checked under SpecFeed) *)

StrictlyIncreasing(dq) ==
    \A i, j \in 1..Len(dq) : i < j => dq[i].start_ts < dq[j].start_ts

LastTs(dq) == dq[Len(dq)].start_ts

CandleEvents(evs, g) == { ev \in evs : ev.cb = "on_candle" /\ ev.gran = g }

(* C1: after any sequence of ticks, ohlc messages and history batches, every
   buffer is strictly increasing by start_ts. *)
C1_BufferStrictlyIncreasing ==
    \A g \in Grans : StrictlyIncreasing(candles_store[g])

(* C7: a tick whose bucket start is earlier than the open bucket of a granularity
   leaves that granularity's buffer and builder as they were and emits no
   on_candle event for it. *)
C7_StaleTickIgnored ==
    [][\A q \in Prices, e \in Epochs :
          _process_tick(q, e) =>
              \A g \in DOMAIN build_candle :
                  (build_candle[g].start_ts # None
                   /\ BucketStart(e, g) < build_candle[g].start_ts)
                  => /\ candles_store'[g] = candles_store[g]
                     /\ build_candle'[g] = build_candle[g]
                     /\ CandleEvents(events', g) = {}]_vars

(* C8: a commit (of a streamed ohlc candle, or of the bucket a tick closes) whose
   start_ts is less than or equal to the start_ts of the last candle of the
   buffer leaves the buffer unchanged and emits no on_candle event. *)
C8_StaleCommitRejected ==
    [][/\ \A g \in Grans : \A c \in CandleMsgs(g) : \A closed \in BOOLEAN :
            (/\ _process_official_candle(g, c, closed)
             /\ Len(candles_store[g]) > 0
             /\ c.start_ts <= LastTs(candles_store[g]))
            => candles_store' = candles_store /\ events' = {}
       /\ \A q \in Prices, e \in Epochs :
            _process_tick(q, e) =>
                \A g \in RollingGrans(e) :
                    (/\ Len(candles_store[g]) > 0
                     /\ build_candle[g].start_ts <= LastTs(candles_store[g]))
                    => /\ candles_store'[g] = candles_store[g]
                       /\ CandleEvents(events', g) = {}]_vars

(* C8 witness: with on_candle installed, a streamed ohlc candle was rejected *)
C8_Witness ==
    /\ feed_op.op = "ohlc"
    /\ feed_op.rejected # {}
    /\ "on_candle" \in callbacks


----------------------------------------------------------------------------
(* Claims about the bot loops (checked under SpecBots) *)

(* the loop tasks of bot b that can still run an iteration *)
LiveTasksOf(b) == { t \in TaskIds : tasks[t].owner = b /\ Live(t) }

(* C2: a bot never has more than one loop task that can still run another
   iteration, and a bot that is ACTIVE (active, for a Bot of bot.py) has exactly
   one. *)
C2_OneLoopPerBot ==
    /\ \A b \in DOMAIN tb :
          /\ Cardinality(LiveTasksOf(b)) <= 1
          /\ tb[b].state = "ACTIVE" => Cardinality(LiveTasksOf(b)) = 1
    /\ variant = "bot" =>
          \A b \in BotIds :
             /\ Cardinality(LiveTasksOf(b)) <= 1
             /\ bt[b].active => Cardinality(LiveTasksOf(b)) = 1

(* C3: asking a bot to go to the state it is already in changes nothing: no task
   is created, none is cancelled, and the handle and the state stay as they were. *)
C3_SameStateNoOp ==
    [][\A b \in BotIds, st \in BotStates :
          (toggle_bot_state(b, st) /\ b \in DOMAIN tb /\ tb[b].state = st)
             => (tb' = tb /\ tasks' = tasks)]_vars

C3_Witness ==
    /\ sched_op.op = "toggle_bot_state"
    /\ sched_op.arg = "ACTIVE"
    /\ sched_op.prev = "ACTIVE"
    /\ tb[sched_op.bot].task # None
    /\ FreeTaskIds # {}

(* C4: the task handle of a bot is set exactly when the bot is ACTIVE: a bot just
   created, and a bot PAUSED or INACTIVE, holds no handle. *)
C4_HandleIffActive ==
    \A b \in DOMAIN tb : (tb[b].task # None) <=> (tb[b].state = "ACTIVE")

C4_Witness ==
    /\ sched_op.op = "toggle_bot_state"
    /\ sched_op.arg = "PAUSED"
    /\ sched_op.prev = "ACTIVE"
    /\ tb[sched_op.bot].task = None
    /\ \E o \in DOMAIN tb : tb[o].state = "ACTIVE" /\ tb[o].task # None

(* the decision on the recorded prices is absent or neutral *)
NoDirection(hist) ==
    SignalOf(hist) = PyNone \/ SignalOf(hist).action = "NEUTRO"

(* C5: a loop cycle that evaluates the strategy while the signal is neutral or
   absent invokes no purchase and changes no statistic, and leaves the loop
   waiting for its next cycle. *)
C5_NoSignalNoTrade ==
    [][/\ \A t \in TaskIds, o \in BuyOutcomes :
             (TaskStep(t, o) /\ tasks[t].pc = "sleep_tf" /\ ~tasks[t].cancel
                 /\ NoDirection(ticks_history))
                => /\ tb'[tasks[t].owner].calls = tb[tasks[t].owner].calls
                   /\ tb'[tasks[t].owner].stats = tb[tasks[t].owner].stats
                   /\ tasks'[t].pc \in {"sleep_tf", "sleep_err"}
       /\ \A t \in TaskIds, o \in SubscribeOutcomes, win \in BOOLEAN :
             (BotTaskStep(t, o, win) /\ tasks[t].pc = "sleep_tf" /\ ~tasks[t].cancel
                 /\ NoDirection(ticks_history))
                => /\ bt'[tasks[t].owner].stats = bt[tasks[t].owner].stats
                   /\ tasks'[t].pc = "sleep_tf"]_vars

(* the price lists on which the snapshot is undefined: fewer than
   MIN_TICKS_REQUIRED prices, or some indicator that is NaN *)
UndefinedHistories ==
    { h \in TickHistories :
        \/ Len(h) < MIN_TICKS_REQUIRED
        \/ isnan(calculate_ema(LastN(h, 150), EMA_FAST_PERIOD))
        \/ isnan(calculate_ema(LastN(h, 150), EMA_SLOW_PERIOD))
        \/ isnan(calculate_ema(LastN(h, 150), EMA_VERY_SLOW_PERIOD))
        \/ isnan(calculate_adx(LastN(h, 150), ADX_PERIOD))
        \/ isnan(calculate_rsi(LastN(h, 150), RSI_PERIOD))
        \/ isnan(calculate_stddev(LastN(h, 150), BB_PERIOD)) }

(* C6: with fewer than MIN_TICKS_REQUIRED prices, or with an indicator undefined,
   the snapshot and the signal are absent (never CALL or PUT), and a loop cycle
   on such prices executes nothing: no purchase is invoked and no statistic
   changes. *)
C6_UndefinedNoSignal ==
    [][(ticks_history \in UndefinedHistories) =>
          /\ IndicatorsOf(ticks_history) = PyNone
          /\ SignalOf(ticks_history) = PyNone
          /\ \A t \in TaskIds, o \in BuyOutcomes :
                TaskStep(t, o) =>
                   /\ tb'[tasks[t].owner].calls = tb[tasks[t].owner].calls
                   /\ tb'[tasks[t].owner].stats = tb[tasks[t].owner].stats
                   /\ tasks'[t].pc # "await_buy"]_vars

C6_Witness ==
    /\ variant = "bots_manager"
    /\ ticks_history # <<>>
    /\ Len(ticks_history) < MIN_TICKS_REQUIRED
    /\ sched_op.op = "step"
    /\ sched_op.arg = "sleep_tf"
    /\ sched_op.prev = "insufficient"

(* what of bot o a step must leave alone: its fields and its loop task *)
TradingBotUntouched(o) ==
    /\ tb'[o] = tb[o]
    /\ tb[o].task # None => tasks'[tb[o].task] = tasks[tb[o].task]

BotUntouched(o) ==
    /\ bt'[o] = bt[o]
    /\ bt[o].task # None => tasks'[bt[o].task] = tasks[bt[o].task]

(* C9: when two bots trade the same symbol and timeframe, taking one out of
   ACTIVE (or stopping it) leaves the other's state, loop task, handle and
   statistics as they were. *)
C9_DeactivationIsLocal ==
    [][/\ \A b \in BotIds, st \in BotStates \ {"ACTIVE"} :
             (toggle_bot_state(b, st) /\ b \in DOMAIN tb)
                => \A o \in DOMAIN tb \ {b} :
                      (tb[o].symbol = tb[b].symbol /\ tb[o].tf = tb[b].tf)
                         => TradingBotUntouched(o)
       /\ \A b \in BotIds :
             (stop(b) \/ stop_returns(b))
                => \A o \in BotIds \ {b} :
                      (bt[o].symbol = bt[b].symbol /\ bt[o].tf = bt[b].tf)
                         => BotUntouched(o)]_vars

C9_Witness ==
    /\ sched_op.op = "toggle_bot_state"
    /\ sched_op.arg = "INACTIVE"
    /\ sched_op.prev = "ACTIVE"
    /\ \E o \in DOMAIN tb \ {sched_op.bot} :
          /\ tb[o].symbol = tb[sched_op.bot].symbol
          /\ tb[o].tf = tb[sched_op.bot].tf
          /\ tb[o].state = "ACTIVE"
          /\ tb[o].task # None
          /\ tasks[tb[o].task].pc = "sleep_tf"
          /\ Live(tb[o].task)

(* C10: an exception raised in an iteration of a bot's run_loop is caught: the
   loop task survives it and, after the pause of the handler, goes on to its next
   cycle while the bot is ACTIVE; the bot's state and handle and every other bot
   and task are as before. *)
C10_ExceptionContained ==
    [][\A t \in TaskIds, o \in BuyOutcomes :
          /\ (TaskStep(t, o) /\ sched_op'.prev = "raised")
                => /\ tasks'[t].pc \notin {"done", "free"}
                   /\ ~tasks'[t].cancel
                   /\ tb'[tasks[t].owner].state = tb[tasks[t].owner].state
                   /\ tb'[tasks[t].owner].task = tb[tasks[t].owner].task
                   /\ \A b \in DOMAIN tb \ {tasks[t].owner} : tb'[b] = tb[b]
                   /\ \A u \in TaskIds \ {t} : tasks'[u] = tasks[u]
          /\ (TaskStep(t, o) /\ tasks[t].pc = "sleep_err" /\ ~tasks[t].cancel
                /\ tb[tasks[t].owner].state = "ACTIVE")
                => tasks'[t].pc = "sleep_tf"]_vars

C10_Witness ==
    /\ variant = "bots_manager"
    /\ sched_op.op = "step"
    /\ sched_op.arg = "sleep_err"
    /\ sched_op.prev = "woke"
    /\ tb[sched_op.bot].state = "ACTIVE"
    /\ tb[sched_op.bot].task # None
    /\ tasks[tb[sched_op.bot].task].pc = "sleep_tf"
    /\ \E o \in DOMAIN tb \ {sched_op.bot} : tb[o].state = "ACTIVE"

(* the state changes the bot state machine allows *)
AllowedTransitions ==
    { <<"INACTIVE", "ACTIVE">>, <<"ACTIVE", "PAUSED">>, <<"PAUSED", "ACTIVE">>,
      <<"ACTIVE", "INACTIVE">>, <<"PAUSED", "INACTIVE">> }

(* C19: a bot is created INACTIVE, and its state changes only along INACTIVE to
   ACTIVE, ACTIVE to PAUSED, PAUSED to ACTIVE, and ACTIVE or PAUSED to INACTIVE;
   never from INACTIVE to PAUSED. *)
C19_StateMachine ==
    [][/\ \A b \in DOMAIN tb' \ DOMAIN tb : tb'[b].state = "INACTIVE"
       /\ \A b \in DOMAIN tb :
             tb'[b].state # tb[b].state
                => <<tb[b].state, tb'[b].state>> \in AllowedTransitions]_vars

(* C18: a loop asked to cancel ends at its next step without evaluating a signal
   or executing, and once the bot is deactivated (TradingBot) or its stop() has
   returned (Bot) the bot holds no reference to that task. *)
C18_NoDanglingTask ==
    [][/\ \A t \in TaskIds, o \in BuyOutcomes :
             (TaskStep(t, o) /\ tasks[t].cancel)
                => /\ tasks'[t].pc \in {"done", "free"}
                   /\ sched_op'.prev = "cancelled"
                   /\ tb' = tb
       /\ \A t \in TaskIds, o \in SubscribeOutcomes, win \in BOOLEAN :
             (BotTaskStep(t, o, win) /\ tasks[t].cancel)
                => /\ tasks'[t].pc \in {"done", "free"}
                   /\ sched_op'.prev = "cancelled"
                   /\ bt' = bt
       /\ \A b \in BotIds, st \in BotStates \ {"ACTIVE"} :
             (toggle_bot_state(b, st) /\ b \in DOMAIN tb) => tb'[b].task = None
       /\ \A b \in BotIds :
             stop_returns(b) => bt'[b].task = None]_vars

----------------------------------------------------------------------------
(* run_loop from line 81 on: the loop of bot 1 has invoked client.buy and waits
   for its answer, a second bot being inactive or in its cycle. In the program as
   it stands the call of line 70 raises before line 81 is reached; this
   specification checks the code of lines 81-105 on its own. *)
ExecInit ==
    /\ candles_store = [g \in Grans |-> <<>>]
    /\ build_candle = [g \in {} |-> EmptyBuilder]
    /\ last_tick = None
    /\ callbacks = {}
    /\ events = {}
    /\ feed_op = [op |-> "init", committed |-> {}, rejected |-> {}]
    /\ conn = NewClient
    /\ app = NewApp("main.py")
    /\ calc = NoCalc
    /\ ticks_history \in { h \in TickHistories : SignalOf(h) # PyNone }
    /\ variant = "bots_manager"
    /\ \E other \in {"INACTIVE", "ACTIVE"} :
          /\ tb = [b \in BotIds |->
                     IF b = 1
                     THEN [NewTradingBot("R_100", 60) EXCEPT
                              !.state = "ACTIVE", !.task = 1, !.calls = 1]
                     ELSE [NewTradingBot("R_100", 60) EXCEPT
                              !.state = other,
                              !.task = IF other = "ACTIVE" THEN 2 ELSE None]]
          /\ tasks = [t \in TaskIds |->
                        IF t = 1 THEN [owner |-> 1, pc |-> "await_buy", cancel |-> FALSE]
                        ELSE IF t = 2 /\ other = "ACTIVE"
                        THEN [owner |-> 2, pc |-> "sleep_tf", cancel |-> FALSE]
                        ELSE FreeTask]
    /\ bt = [b \in BotIds |-> NewBot("R_100", 60)]
    /\ on_tick = None
    /\ stop_waiting = [b \in {} |-> None]
    /\ sched_op = [op |-> "step", prev |-> "buy", bot |-> 1, arg |-> "sleep_tf"]

ExecNext ==
    \/ \E b \in BotIds, st \in BotStates : toggle_bot_state(b, st)
    \/ \E t \in TaskIds, o \in BuyOutcomes : TaskStep(t, o)

SpecExec == ExecInit /\ [][ExecNext]_vars

(* C11: when client.buy fails for a bot (it raises, or it returns no contract),
   the failure is recorded in the bot's stats: the stats after the failed
   execution differ from the stats before it. *)
C11_FailureRecorded ==
    [][\A t \in TaskIds, o \in {"none", "raise"} :
          (TaskStep(t, o) /\ tasks[t].pc = "await_buy" /\ ~tasks[t].cancel)
             => tb'[tasks[t].owner].stats # tb[tasks[t].owner].stats]_vars

(* C17: deactivating a bot whose loop waits for client.buy does not cancel the
   call in flight, which completes, and the loop invokes client.buy no more. *)
C17_InFlightCompletes ==
    [][/\ \A b \in BotIds, st \in BotStates \ {"ACTIVE"} :
             (toggle_bot_state(b, st) /\ tb[b].task # None
                 /\ tasks[tb[b].task].pc = "await_buy")
                => /\ tasks'[tb[b].task].pc = "await_buy"
                   /\ ~tasks'[tb[b].task].cancel
       /\ \A t \in TaskIds, o \in BuyOutcomes :
             (TaskStep(t, o) /\ tb[tasks[t].owner].state # "ACTIVE")
                => tb'[tasks[t].owner].calls = tb[tasks[t].owner].calls]_vars

----------------------------------------------------------------------------
(* Ticks of the client reaching the Bots of bot.py *)

(* _process_tick with the slot on_tick holding the lambda of a Bot, or nothing:
   the lambda schedules Bot._on_tick, which appends the quote to the closes of
   that Bot when the symbol is the Bot's; closes counts the quotes appended *)
BotTick(symbol, quote, epoch) ==
    /\ variant = "bot"
    /\ ProcessTick(quote, epoch)
    /\ IF on_tick # None /\ bt[on_tick].symbol = symbol
       THEN /\ bt[on_tick].closes < MaxCloses
            /\ bt' = [bt EXCEPT ![on_tick].closes = @ + 1]
       ELSE UNCHANGED bt
    /\ sched_op' = [op |-> "tick", prev |-> "", bot |-> on_tick, arg |-> symbol]
    /\ UNCHANGED <<ticks_history, variant, tb, tasks, on_tick, stop_waiting>>
    /\ UNCHANGED ctlVars

(* two Bots of bot.py, not started, on a client that has received nothing *)
TicksInit ==
    /\ candles_store = [g \in Grans |-> <<>>]
    /\ build_candle = [g \in {} |-> EmptyBuilder]
    /\ last_tick = None
    /\ callbacks = {}
    /\ events = {}
    /\ feed_op = [op |-> "init", committed |-> {}, rejected |-> {}]
    /\ conn = NewClient
    /\ app = NewApp("main.py")
    /\ calc = NoCalc
    /\ ticks_history = <<>>
    /\ variant = "bot"
    /\ tb = [b \in {} |-> NewTradingBot("R_100", 60)]
    /\ bt = [b \in BotIds |-> NewBot("R_100", 60)]
    /\ tasks = [t \in TaskIds |-> FreeTask]
    /\ on_tick = None
    /\ stop_waiting = [b \in {} |-> None]
    /\ sched_op = [op |-> "init", prev |-> "", bot |-> None, arg |-> ""]

TicksNext ==
    \/ \E b \in BotIds : start(b)
    \/ \E b \in BotIds : stop(b)
    \/ \E b \in BotIds : stop_returns(b)
    \/ \E t \in TaskIds, o \in SubscribeOutcomes, win \in BOOLEAN : BotTaskStep(t, o, win)
    \/ \E q \in Prices, e \in Epochs : BotTick("R_100", q, e)

SpecTicks == TicksInit /\ [][TicksNext]_vars

(* a Bot whose loop has subscribed and installed its tick callback, and runs *)
Subscribed(b) ==
    /\ bt[b].active
    /\ bt[b].task # None
    /\ tasks[bt[b].task].pc = "sleep_tf"
    /\ ~tasks[bt[b].task].cancel

(* C15: every tick of a symbol is delivered to every running Bot of that symbol;
   a second Bot starting takes nothing from the first. *)
C15_TickToEverySubscriber ==
    [][\A q \in Prices, e \in Epochs :
          BotTick("R_100", q, e)
             => \A b \in BotIds :
                   (Subscribed(b) /\ bt[b].symbol = "R_100")
                      => bt'[b].closes = bt[b].closes + 1]_vars

----------------------------------------------------------------------------
(* The DerivClient alone: a caller connects, subscribes and stops it, the
   server answers, streams and closes *)

ConnInit ==
    /\ conn = NewClient
    /\ app = NewApp("main.py")
    /\ calc = NoCalc
    /\ candles_store = [g \in Grans |-> <<>>]
    /\ build_candle = [g \in {} |-> EmptyBuilder]
    /\ last_tick = None
    /\ callbacks = {}
    /\ events = {}
    /\ feed_op = [op |-> "init", committed |-> {}, rejected |-> {}]
    /\ ticks_history = <<>>
    /\ variant = "bots_manager"
    /\ tb = [b \in {} |-> NewTradingBot("R_100", 60)]
    /\ bt = [b \in BotIds |-> NewBot("R_100", 60)]
    /\ tasks = [t \in TaskIds |-> FreeTask]
    /\ on_tick = None
    /\ stop_waiting = [b \in {} |-> None]
    /\ sched_op = [op |-> "init", prev |-> "", bot |-> None, arg |-> ""]

ConnNext ==
    \/ \E token \in Tokens : connect(token)
    \/ \E ok \in BOOLEAN : ConnectOpened(ok)
    \/ \E answer \in AuthAnswers : AuthorizeAnswered(answer)
    \/ subscribe_ticks
    \/ subscribe_candles_history
    \/ \E q \in Prices, e \in Epochs : ListenerTick(q, e)
    \/ \E g \in Grans : \E c \in CandleMsgs(g) : \E closed \in BOOLEAN :
          ListenerOhlc(g, c, closed)
    \/ \E g \in Grans : \E d \in HistoryBatches(g) : ListenerHistory(g, d)
    \/ ServerClose
    \/ client_stop

SpecConn == ConnInit /\ [][ConnNext]_vars

(* the event loop runs every continuation that is ready: the socket opens or
   fails, the authorisation is answered or times out. Nothing obliges the
   caller to call connect() or the server to send *)
SpecConnFair ==
    /\ ConnInit
    /\ [][ConnNext]_vars
    /\ WF_vars(\E ok \in BOOLEAN : ConnectOpened(ok))
    /\ WF_vars(\E answer \in AuthAnswers : AuthorizeAnswered(answer))

ClosedByServer == conn.op = "server_close"

Resubscribed == conn.is_connected /\ conn.ever_subs \subseteq conn.subs

(* C13: after the server closes an authorised session the client is eventually
   connected again with every stream it had subscribed requested again *)
C13_ReconnectsOnItsOwn == ClosedByServer ~> Resubscribed

----------------------------------------------------------------------------
(* The feed and one TradingBot side by side: an authorised session that has
   streamed MIN_TICKS_REQUIRED - 1 ticks of the bot's symbol, no candle builder
   registered, and a bot created on that symbol *)

FlowInit ==
    /\ conn = [NewClient EXCEPT !.is_connected = TRUE, !.authorized = TRUE,
                                !.ws = "open", !.token = "valid",
                                !.listener = "running", !.sock = 1, !.handle = 1,
                                !.reads = {[task |-> 1, sock |-> 1]},
                                !.subs = {"ticks"},
                                !.ever_subs = {"ticks"},
                                !.ticks_seen = MIN_TICKS_REQUIRED - 1,
                                !.op = "recv_tick"]
    /\ app = NewApp("main.py")
    /\ calc = NoCalc
    /\ candles_store = [g \in Grans |-> <<>>]
    /\ build_candle = [g \in {} |-> EmptyBuilder]
    /\ last_tick \in Prices
    /\ callbacks = {}
    /\ events = {}
    /\ feed_op = [op |-> "tick", committed |-> {}, rejected |-> {}]
    /\ ticks_history \in {<<>>, RisingSeries(60)}
    /\ variant = "bots_manager"
    /\ tb = [b \in {1} |-> NewTradingBot("R_100", 60)]
    /\ bt = [b \in BotIds |-> NewBot("R_100", 60)]
    /\ tasks = [t \in TaskIds |-> FreeTask]
    /\ on_tick = None
    /\ stop_waiting = [b \in {} |-> None]
    /\ sched_op = [op |-> "create_bot", prev |-> "", bot |-> 1, arg |-> ""]

FlowNext ==
    \/ \E st \in BotStates : toggle_bot_state(1, st)
    \/ \E t \in TaskIds : TaskStep(t, "contract")
    \/ connect("valid")
    \/ \E ok \in BOOLEAN : ConnectOpened(ok)
    \/ \E answer \in AuthAnswers : AuthorizeAnswered(answer)
    \/ subscribe_ticks
    \/ subscribe_candles_history
    \/ \E q \in Prices, e \in Epochs : ListenerTick(q, e)
    \/ \E g \in Grans : \E d \in HistoryBatches(g) : ListenerHistory(g, d)
    \/ ServerClose

SpecFlow == FlowInit /\ [][FlowNext]_vars

(* a step of a run_loop task that woke from its cycle sleep and ran the body *)
LoopIteration ==
    /\ \E t \in TaskIds : TaskStep(t, "contract")
    /\ sched_op'.arg = "sleep_tf"
    /\ sched_op'.prev # "cancelled"

(* C14: every signal evaluation of a bot loop happens with the history of the
   bot's granularity loaded since the latest connect *)
C14_HistoryBeforeEvaluation ==
    [][LoopIteration /\ sched_op'.prev # "insufficient"
          => conn.history_loaded # {}]_vars

(* C20: once the client has processed MIN_TICKS_REQUIRED ticks of the bot's
   symbol, an iteration of the bot's loop does not end for lack of data *)
C20_TicksReachSignalEngine ==
    [][LoopIteration /\ conn.ticks_seen >= MIN_TICKS_REQUIRED
          => sched_op'.prev # "insufficient"]_vars

----------------------------------------------------------------------------
(* The web application, either main.py or app.py: HTTP commands and the worker
   threads they start *)

MainInit ==
    /\ app \in {NewApp("main.py"), NewApp("app.py")}
    /\ calc = NoCalc
    /\ conn = NewClient
    /\ candles_store = [g \in Grans |-> <<>>]
    /\ build_candle = [g \in {} |-> EmptyBuilder]
    /\ last_tick = None
    /\ callbacks = {}
    /\ events = {}
    /\ feed_op = [op |-> "init", committed |-> {}, rejected |-> {}]
    /\ ticks_history = <<>>
    /\ variant = "bots_manager"
    /\ tb = [b \in {} |-> NewTradingBot("R_100", 60)]
    /\ bt = [b \in BotIds |-> NewBot("R_100", 60)]
    /\ tasks = [t \in TaskIds |-> FreeTask]
    /\ on_tick = None
    /\ stop_waiting = [b \in {} |-> None]
    /\ sched_op = [op |-> "init", prev |-> "", bot |-> None, arg |-> ""]

MainNext ==
    \/ \E a \in Actions, k \in ApiTokens : control_bot(a, k)
    \/ \E a \in Actions, k \in ApiTokens : control(a, k)
    \/ \E w \in ThreadIds, o \in WorkerOutcomes, tr \in Trends : MainWorkerStep(w, o, tr)
    \/ \E w \in ThreadIds, o \in WorkerOutcomes, tr \in Trends : AppWorkerStep(w, o, tr)

SpecMain == MainInit /\ [][MainNext]_vars

(* the part of C12 about DerivClient.connect: an attempt that did not end
   authorised leaves the client disconnected, unauthorised, without a listener
   started by it, and idle *)
ConnectEndsClean ==
    conn.op = "auth_failed" =>
        /\ ~conn.is_connected
        /\ ~conn.authorized
        /\ conn.listener # "running"
        /\ conn.pc = "idle"

(* C12: a worker whose authorize request was answered with an error makes no
   further connect or authorize attempt, its token being the same *)
C12_NoRetryAfterAuthError ==
    [][\A w \in ThreadIds :
          (app.workers[w].auth_failed /\ app.workers[w].pc = "connect")
              => app'.workers[w] = app.workers[w]]_vars

(* C16: in main.py, once the stop command has published direction OFF, the
   published direction stays OFF until the next start command *)
C16_StopIsLastWrite ==
    [][(app.flavor = "main.py" /\ app.last_cmd = "stop" /\ app.direction = "OFF")
          => (app'.direction = "OFF" \/ app'.last_cmd = "start")]_vars

----------------------------------------------------------------------------
(* strategy.py on its own: generate_signal's decision on indicator snapshots and
   calculate_rsi on close series *)

(* indicator snapshots around every threshold generate_signal compares with: the
   bands lie at the same distance on both sides of ema_slow, as
   calculate_indicators builds them *)
Snapshots ==
    { [ema_slow |-> 2 * Scale, last_price |-> p * Scale, ema_fast |-> f * Scale,
       ema_very_slow |-> m * Scale, rsi |-> r * Scale, adx |-> a * Scale,
       bb_upper |-> (2 + d) * Scale, bb_lower |-> (2 - d) * Scale] :
        p \in {1, 2, 3}, f \in {1, 2, 3}, m \in {2, 3},
        r \in {29, 30, 50, 70, 71}, a \in {20, 21}, d \in {0, 1} }

(* close series for calculate_rsi: flat ones, shorter and longer than twice the
   period, rising and falling ones, and a flat one that ends with a rise *)
RsiSeries ==
    { ConstSeries(n, p) : n \in {14, 28, 30}, p \in {1, 5} }
      \cup { RisingSeries(28), FallingSeries(28),
              ConstSeries(27, 5) \o <<6>>, ConstSeries(27, 5) \o <<4>> }

(* the decision of generate_signal on a snapshot; prev keeps the decision made
   before it *)
Decide(ind) ==
    /\ calc' = [fn |-> "generate_signal", input |-> ind, out |-> DecideSignal(ind),
                prev |-> IF calc.fn = "generate_signal" THEN calc.out ELSE PyNone]
    /\ UNCHANGED <<feedVars, botsVars, conn, app>>

Rsi(prices) ==
    /\ calc' = [fn |-> "calculate_rsi", input |-> prices,
                out |-> calculate_rsi(prices, RSI_PERIOD), prev |-> PyNone]
    /\ UNCHANGED <<feedVars, botsVars, conn, app>>

StrategyInit ==
    /\ calc = NoCalc
    /\ conn = NewClient
    /\ app = NewApp("main.py")
    /\ candles_store = [g \in Grans |-> <<>>]
    /\ build_candle = [g \in {} |-> EmptyBuilder]
    /\ last_tick = None
    /\ callbacks = {}
    /\ events = {}
    /\ feed_op = [op |-> "init", committed |-> {}, rejected |-> {}]
    /\ ticks_history = <<>>
    /\ variant = "bots_manager"
    /\ tb = [b \in {} |-> NewTradingBot("R_100", 60)]
    /\ bt = [b \in BotIds |-> NewBot("R_100", 60)]
    /\ tasks = [t \in TaskIds |-> FreeTask]
    /\ on_tick = None
    /\ stop_waiting = [b \in {} |-> None]
    /\ sched_op = [op |-> "init", prev |-> "", bot |-> None, arg |-> ""]

StrategyNext ==
    \/ \E ind \in Snapshots : Decide(ind)
    \/ \E prices \in RsiSeries : Rsi(prices)

SpecStrategy == StrategyInit /\ [][StrategyNext]_vars

Decided == calc.fn = "generate_signal"

Trending(ind) == ind.adx > ADX_TREND_THRESHOLD * Scale

(* the direction the trending regime prescribes *)
TrendDirection(ind) ==
    IF ind.ema_fast > ind.ema_slow /\ ind.last_price > ind.ema_very_slow
    THEN "CALL (COMPRA)"
    ELSE IF ind.ema_fast < ind.ema_slow /\ ind.last_price < ind.ema_very_slow
    THEN "PUT (VENDA)"
    ELSE "NEUTRO"

(* C22: with trend strength above 20 the action is CALL exactly when emaFast >
   emaSlow and lastPrice > emaMacro, PUT exactly when emaFast < emaSlow and
   lastPrice < emaMacro, NEUTRAL otherwise, whatever RSI and the bands are *)
C22_TrendingDirection ==
    (Decided /\ Trending(calc.input)) => calc.out.action = TrendDirection(calc.input)

(* a trending CALL issued while RSI is above the sell threshold and the price
   is outside the upper band *)
C22_Witness ==
    /\ Decided
    /\ Trending(calc.input)
    /\ calc.out.action = "CALL (COMPRA)"
    /\ calc.input.rsi > RSI_SELL_THRESHOLD * Scale
    /\ calc.input.last_price > calc.input.bb_upper

HighestTier == 95

(* C23: with trend strength at most 20, RSI > 70 with lastPrice >= bbUpper gives
   PUT, and RSI < 30 with lastPrice <= bbLower gives CALL, both at the highest
   confidence, equality with the band included *)
C23_BandTouchIncludesEquality ==
    (Decided /\ ~Trending(calc.input)) =>
        /\ (calc.input.rsi > RSI_SELL_THRESHOLD * Scale
              /\ calc.input.last_price >= calc.input.bb_upper)
             => (calc.out.action = "PUT (VENDA)" /\ calc.out.probability = HighestTier)
        /\ (calc.input.rsi < RSI_BUY_THRESHOLD * Scale
              /\ calc.input.last_price <= calc.input.bb_lower)
             => (calc.out.action = "CALL (COMPRA)" /\ calc.out.probability = HighestTier)

RsiExtremeWithoutTouch(ind) ==
    \/ ind.rsi > RSI_SELL_THRESHOLD * Scale /\ ind.last_price < ind.bb_upper
    \/ ind.rsi < RSI_BUY_THRESHOLD * Scale /\ ind.last_price > ind.bb_lower

(* C24: with trend strength at most 20, an RSI extreme whose band is not
   touched gives NEUTRAL, whatever the order of emaFast and emaSlow *)
C24_ExtremeWithoutTouchIsNeutral ==
    (Decided /\ ~Trending(calc.input) /\ RsiExtremeWithoutTouch(calc.input))
        => calc.out.action = "NEUTRO"

(* RSI above 70 below the upper band with emaFast above emaSlow: NEUTRAL *)
C24_Witness ==
    /\ Decided
    /\ ~Trending(calc.input)
    /\ calc.input.rsi > RSI_SELL_THRESHOLD * Scale
    /\ calc.input.last_price < calc.input.bb_upper
    /\ calc.input.ema_fast > calc.input.ema_slow
    /\ calc.out.action = "NEUTRO"

Directional(sig) == sig.action # "NEUTRO"

(* signal a ranks strictly above signal b where the tiers order them *)
TierOrdered(a, b) ==
    /\ (a.rule = "extreme_reversal" /\ b.rule = "trend_confirmed")
          => a.probability > b.probability
    /\ (a.rule = "trend_confirmed" /\ b.rule = "crossover_fallback")
          => a.probability > b.probability
    /\ (Directional(a) /\ ~Directional(b)) => a.probability > b.probability

(* C25: for any two decisions, extreme reversal ranks above confirmed trend,
   confirmed trend above crossover fallback, and a directional signal above a
   NEUTRAL one *)
C25_TierPrecedence ==
    (Decided /\ calc.prev # PyNone) =>
        (TierOrdered(calc.out, calc.prev) /\ TierOrdered(calc.prev, calc.out))

AvgLossZero(prices) == \A i \in 2..Len(prices) : prices[i] >= prices[i - 1]

(* C26: calculate_rsi of a series with enough closes and no falling step,
   identical closes included, is 100 *)
C26_RsiOfNoLoss ==
    (calc.fn = "calculate_rsi" /\ Len(calc.input) >= 2 * RSI_PERIOD
        /\ AvgLossZero(calc.input))
        => calc.out = 100 * Scale

----------------------------------------------------------------------------
(* Bots over a DerivClient whose session opens and is closed by the server *)

(* a step of a Bot.loop task whose subscribe call meets the client as it is:
   without a connected, authorised session the call raises RuntimeError *)
BotStepOnClient(t, outcome, win) ==
    /\ BotTaskStep(t, outcome, win)
    /\ (tasks[t].pc = "await_subscribe" /\ ~tasks[t].cancel /\ ~CanSubscribe)
          => outcome = "raise"

BotFeedNext ==
    \/ \E b \in BotIds : start(b)
    \/ \E b \in BotIds : stop(b)
    \/ \E b \in BotIds : stop_returns(b)
    \/ \E t \in TaskIds, o \in SubscribeOutcomes, win \in BOOLEAN : BotStepOnClient(t, o, win)
    \/ \E token \in Tokens : connect(token)
    \/ \E ok \in BOOLEAN : ConnectOpened(ok)
    \/ \E answer \in AuthAnswers : AuthorizeAnswered(answer)
    \/ ServerClose

SpecBotFeed == TicksInit /\ [][BotFeedNext]_vars

(* the session was lost or refused, and nothing has been done about it since *)
SessionDown == conn.op \in {"server_close", "auth_failed"}

(* C21: with the client disconnected or unauthorised, the subscribe call of a
   bot loop does not raise into the loop and does not end it *)
C21_SubscribeNeverRaises ==
    [][\A t \in TaskIds :
          (SessionDown /\ tasks[t].pc = "await_subscribe"
             /\ \E o \in SubscribeOutcomes, win \in BOOLEAN : BotStepOnClient(t, o, win))
          => sched_op'.prev # "raised"]_vars

----------------------------------------------------------------------------
(* Claims on the candle buffers, continued (SpecFeed) *)

(* C27: after a history response of a granularity is processed the buffer holds
   exactly the candles of the batch, whatever it held before and whatever the
   batch, the empty one included *)
C27_HistoryReplacesBuffer ==
    [][\A g \in Grans : \A d \in HistoryBatches(g) :
          _process_history_candles(g, d) => candles_store'[g] = d]_vars

(* the part of C27 on the duplicate guard: after a batch that is not empty, the
   last start_ts of the batch is the baseline of the guard *)
HistorySetsBaseline ==
    [][\A g \in Grans : \A d \in HistoryBatches(g) :
          (d # <<>> /\ _process_history_candles(g, d)) =>
              \A c \in CandleMsgs(g) :
                  c.start_ts <= d[Len(d)].start_ts
                      => CommitBuffer(candles_store'[g], c) = candles_store'[g]]_vars

(* C29: a streamed ohlc update of a bucket still in progress (is_closed false)
   is not committed and emits no on_candle event *)
C29_OnlyClosedCandlesCommitted ==
    [][\A g \in Grans : \A c \in CandleMsgs(g) :
          _process_official_candle(g, c, FALSE)
              => (candles_store'[g] = candles_store[g] /\ CandleEvents(events', g) = {})]_vars

----------------------------------------------------------------------------
(* The candle builders alone: ticks whose bucket never goes back *)

(* the tick's bucket is not earlier than the open bucket of granularity g *)
InOrder(g, epoch) ==
    build_candle[g].start_ts = None \/ BucketStart(epoch, g) >= build_candle[g].start_ts

OrderedTick(quote, epoch) ==
    /\ \A g \in DOMAIN build_candle : InOrder(g, epoch)
    /\ _process_tick(quote, epoch)

AggNext ==
    \/ \E q \in Prices, e \in Epochs : OrderedTick(q, e)
    \/ \E g \in Grans : ensure_candle_builder(g)
    \/ SetCallbacks

SpecAgg == FeedInit /\ [][AggNext]_vars

Max2(a, b) == IF a > b THEN a ELSE b
Min2(a, b) == IF a < b THEN a ELSE b

(* C28: for ticks in order, a tick of the open bucket keeps its open, makes its
   close the tick's price and widens high and low to it, and commits nothing; a
   tick of a later bucket commits the open bucket as it stands, with its
   start_ts, and opens the bucket floor(epoch / granularity) * granularity with
   the tick's price *)
C28_TickAggregation ==
    [][\A q \in Prices, e \in Epochs :
          OrderedTick(q, e) =>
              \A g \in DOMAIN build_candle :
                  LET old == build_candle[g]
                      new == build_candle'[g]
                      bucket == (e \div g) * g
                  IN  /\ new.start_ts = bucket
                      /\ new.close = q
                      /\ IF old.start_ts = bucket
                         THEN /\ new.open = old.open
                              /\ new.high = Max2(old.high, q)
                              /\ new.low = Min2(old.low, q)
                              /\ candles_store'[g] = candles_store[g]
                         ELSE /\ new.open = q /\ new.high = q /\ new.low = q
                              /\ candles_store'[g] =
                                    IF old.start_ts = None THEN candles_store[g]
                                    ELSE Append(candles_store[g],
                                                [high |-> old.high, low |-> old.low,
                                                 close |-> old.close,
                                                 start_ts |-> old.start_ts,
                                                 open |-> old.open])]_vars

(* a tick closed a bucket that had seen a higher and a lower price, and the
   candle is in the buffer with on_candle emitted *)
C28_Witness ==
    /\ feed_op.op = "tick"
    /\ \E g \in feed_op.committed :
          /\ candles_store[g][Len(candles_store[g])].high
                > candles_store[g][Len(candles_store[g])].low
          /\ candles_store[g][Len(candles_store[g])].open
                # candles_store[g][Len(candles_store[g])].close
          /\ CandleEvents(events, g) # {}

----------------------------------------------------------------------------
(* The buffers at their capacity: a buffer that holds HISTORY_CANDLES candles,
   or one less, receives streamed candles and history batches longer than the
   capacity *)

(* n candles of consecutive buckets from bucket 0 *)
Ramp(gran, n) == [i \in 1..n |-> Candle(1, 1, 1, 1, (i - 1) * gran)]

(* streamed candles around the end of a full buffer *)
RingMsgs(gran) ==
    { Candle(1, 1, 1, 1, (HISTORY_CANDLES - 2 + k) * gran) : k \in 0..(MaxRing + 1) }

LongBatches(gran) == { Ramp(gran, HISTORY_CANDLES + k) : k \in 0..2 }

RingInit ==
    /\ candles_store \in [Grans -> UNION { { Ramp(g, HISTORY_CANDLES - 1),
                                             Ramp(g, HISTORY_CANDLES) } : g \in Grans }]
    /\ build_candle = [g \in {} |-> EmptyBuilder]
    /\ last_tick = None
    /\ callbacks = {}
    /\ events = {}
    /\ feed_op = [op |-> "history", committed |-> {}, rejected |-> {}]
    /\ conn = NewClient
    /\ app = NewApp("main.py")
    /\ calc = NoCalc
    /\ ticks_history = <<>>
    /\ variant = "bots_manager"
    /\ tb = [b \in {} |-> NewTradingBot("R_100", 60)]
    /\ bt = [b \in BotIds |-> NewBot("R_100", 60)]
    /\ tasks = [t \in TaskIds |-> FreeTask]
    /\ on_tick = None
    /\ stop_waiting = [b \in {} |-> None]
    /\ sched_op = [op |-> "init", prev |-> "", bot |-> None, arg |-> ""]

RingNext ==
    \/ \E g \in Grans : \E c \in RingMsgs(g) : \E closed \in BOOLEAN :
          _process_official_candle(g, c, closed)
    \/ \E g \in Grans : \E d \in LongBatches(g) : _process_history_candles(g, d)
    \/ SetCallbacks

SpecRing == RingInit /\ [][RingNext]_vars

(* C30: no buffer ever holds more than HISTORY_CANDLES candles; a candle
   committed to a full buffer removes the oldest one and keeps the others in
   order; of a history batch longer than the capacity the last HISTORY_CANDLES
   candles are kept *)
C30_RingBuffer ==
    /\ [](\A g \in Grans : Len(candles_store[g]) <= HISTORY_CANDLES)
    /\ [][/\ \A g \in Grans : \A c \in RingMsgs(g) : \A closed \in BOOLEAN :
               (/\ _process_official_candle(g, c, closed)
                /\ Len(candles_store[g]) = HISTORY_CANDLES
                /\ c.start_ts > LastTs(candles_store[g]))
               => candles_store'[g] = Append(Tail(candles_store[g]), c)
          /\ \A g \in Grans : \A d \in LongBatches(g) :
               (_process_history_candles(g, d) /\ Len(d) > HISTORY_CANDLES)
               => candles_store'[g] = SubSeq(d, Len(d) - HISTORY_CANDLES + 1, Len(d))]_vars

(* a streamed candle was committed to a full buffer, whose oldest candle went *)
C30_Witness ==
    /\ feed_op.op = "ohlc"
    /\ \E g \in feed_op.committed :
          /\ Len(candles_store[g]) = HISTORY_CANDLES
          /\ candles_store[g][1].start_ts > 0

----------------------------------------------------------------------------
(* get_latest_candles on the buffers that streamed candles and history batches
   leave *)

TrackedSymbol == "R_100"

QuerySymbols == {"R_100", "R_50"}

QueryGrans == {2, 3}

Counts == 0..(MaxBatch + 1)

(* seq[-count:] for count >= 0: -0 is 0, and seq[0:] is the whole list *)
SliceFromEnd(seq, count) ==
    IF count = 0 THEN seq ELSE LastN(seq, count)

(* candles_store.get(symbol, {}).get(gran, deque()) *)
StoredDeque(symbol, gran) ==
    IF symbol = TrackedSymbol /\ gran \in DOMAIN candles_store
    THEN candles_store[gran] ELSE <<>>

get_latest_candles(symbol, gran, count) ==
    /\ calc' = [fn |-> "get_latest_candles",
                input |-> [gran |-> gran, symbol |-> symbol, count |-> count],
                out |-> SliceFromEnd(StoredDeque(symbol, gran), count),
                prev |-> PyNone]
    /\ UNCHANGED <<feedVars, botsVars, conn, app>>

QueryNext ==
    \/ \E g \in Grans : \E c \in CandleMsgs(g) : \E closed \in BOOLEAN :
          _process_official_candle(g, c, closed)
    \/ \E g \in Grans : \E d \in HistoryBatches(g) : _process_history_candles(g, d)
    \/ \E s \in QuerySymbols, g \in QueryGrans, n \in Counts : get_latest_candles(s, g, n)

SpecQuery == FeedInit /\ [][QueryNext]_vars

(* the n most recent candles of a buffer, none for n = 0 *)
MostRecent(dq, n) ==
    IF n >= Len(dq) THEN dq ELSE SubSeq(dq, Len(dq) - n + 1, Len(dq))

(* C31: get_latest_candles(symbol, gran, n) returns the min(n, buffer length)
   most recent candles of the buffer, in increasing start_ts order, for every
   n >= 0 (none for n = 0); it returns nothing for an unknown symbol or
   granularity; and it leaves the client state as it was *)
C31_LatestCandles ==
    [][\A s \in QuerySymbols, g \in QueryGrans, n \in Counts :
          get_latest_candles(s, g, n) =>
              /\ calc'.out =
                    IF s = TrackedSymbol /\ g \in Grans
                    THEN MostRecent(candles_store[g], n) ELSE <<>>
              /\ StrictlyIncreasing(calc'.out)
              /\ candles_store' = candles_store
              /\ build_candle' = build_candle
              /\ last_tick' = last_tick
              /\ callbacks' = callbacks
              /\ conn' = conn]_vars

(* the part of C31 for n >= 1 on a buffer in order *)
LatestCandlesPositive ==
    [][\A s \in QuerySymbols, g \in QueryGrans, n \in Counts \ {0} :
          get_latest_candles(s, g, n) =>
              /\ calc'.out =
                    IF s = TrackedSymbol /\ g \in Grans
                    THEN MostRecent(candles_store[g], n) ELSE <<>>
              /\ UNCHANGED <<feedVars, conn>>]_vars

----------------------------------------------------------------------------
(* The cooldown of run_loop (SpecExec) *)

(* the sleeps that follow an execution call: the cooldown of line 95 and the
   pause of the exception handler of line 105 *)
CooldownSleeps == {"sleep_cooldown", "sleep_err"}

(* C32: after every call of client.buy, whether it returns a contract, returns
   none or raises, the loop is suspended in a sleep before anything else; a loop
   that wakes from that sleep invokes nothing and goes to its cycle sleep (or
   ends); and client.buy is invoked only by a loop that woke from its cycle
   sleep. So between two execution calls of a bot lies a cooldown wait. *)
C32_CooldownBetweenExecutions ==
    [][\A t \in TaskIds, o \in BuyOutcomes :
          TaskStep(t, o) =>
              /\ (tasks[t].pc = "await_buy" /\ ~tasks[t].cancel)
                    => tasks'[t].pc \in CooldownSleeps
              /\ tasks[t].pc \in CooldownSleeps
                    => /\ tb'[tasks[t].owner].calls = tb[tasks[t].owner].calls
                       /\ tasks'[t].pc \in {"sleep_tf", "done", "free"}
              /\ tb'[tasks[t].owner].calls > tb[tasks[t].owner].calls
                    => tasks[t].pc = "sleep_tf"]_vars

(* client.buy returned without a contract and the loop sleeps its cooldown *)
C32_Witness ==
    /\ sched_op.op = "step"
    /\ sched_op.arg = "await_buy"
    /\ sched_op.prev = "bought"
    /\ tb[sched_op.bot].stats.trades = 0
    /\ tb[sched_op.bot].task # None
    /\ tasks[tb[sched_op.bot].task].pc = "sleep_cooldown"

----------------------------------------------------------------------------
(* The worker threads of main.py and app.py across stop and start (SpecMain) *)

(* the thread w is inside the loop of deriv_bot_core_logic *)
InLoop(w) == app.workers[w].pc \notin {"free", "finally"}

(* the positions of an analysis cycle: past the test of BOT_STATUS *)
CyclePcs == {"connect", "analysis", "monitor", "monitor_recv", "fetch"}

(* a step of the thread w, of either application *)
WorkerStep(w) ==
    \E o \in WorkerOutcomes, tr \in Trends : MainWorkerStep(w, o, tr) \/ AppWorkerStep(w, o, tr)

(* the thread w was alive when a stop command came, and a start has been
   accepted since *)
Superseded(w) ==
    app.workers[w].pc # "free" /\ app.workers[w].stopped /\ ~app.workers[w].latest

(* C33: under any interleaving of start, stop and the worker threads, at most
   one thread is inside the analysis loop, and a thread that was running when
   stop came begins no analysis cycle once a later start has been accepted *)
C33_SingleWorker ==
    [][/\ (Cardinality({ w \in ThreadIds : InLoop(w) }) <= 1)'
       /\ \A w \in ThreadIds :
             (Superseded(w) /\ app.workers[w].pc = "loop" /\ WorkerStep(w))
                => app'.workers[w].pc \notin CyclePcs]_vars

(* C34: in main.py, BOT_STATUS leaves ON only by a stop command or by the exit
   of the thread the latest start created; a thread of an earlier session that
   terminates does not switch it off *)
C34_StaleWorkerKeepsStatus ==
    [][(app.flavor = "main.py" /\ app.status = "ON" /\ app'.status # "ON")
          => \/ \E k \in ApiTokens : control_bot("stop", k)
             \/ \E w \in ThreadIds :
                   /\ app.workers[w].latest
                   /\ \E o \in WorkerOutcomes, tr \in Trends : MainWorkerStep(w, o, tr)]_vars

----------------------------------------------------------------------------
(* Two calls of DerivClient.connect that overlap: the second is made while the
   first is suspended in websockets.connect or in _authorize *)

(* connect(), up to the await of websockets.connect, called while another call
   is in progress: is_connected is still false until that call's socket opens *)
connect_overlapping(token) ==
    /\ conn.pc # "idle"
    /\ conn.pc2 = "idle"
    /\ conn' = IF conn.is_connected
               THEN [conn EXCEPT !.op = "connect_noop"]
               ELSE [conn EXCEPT !.token = token, !.pc2 = "connecting", !.op = "connect"]
    /\ ConnIdle

(* websockets.connect returns to the second call, which assigns self.ws *)
OverlapOpened(ok) ==
    /\ conn.pc2 = "connecting"
    /\ conn' = IF ok
               THEN [conn EXCEPT !.ws = "open", !.sock = 2, !.is_connected = TRUE,
                                 !.authorized = FALSE, !.pc2 = "authorizing",
                                 !.subs = {}, !.history_loaded = {},
                                 !.op = "opened"]
               ELSE [conn EXCEPT !.is_connected = FALSE, !.pc2 = "idle",
                                 !.op = "open_failed"]
    /\ ConnIdle

OverlapAuthorized(answer) ==
    /\ conn.pc2 = "authorizing"
    /\ answer \in AnswersOn(2)
    /\ conn' = [Authorized(2, answer) EXCEPT !.pc2 = "idle"]
    /\ ConnIdle

(* _listener_loop: the recv() the task created by call c is suspended in
   returns a message, and the loop comes round: "while self.is_connected", then
   recv() on the socket self.ws refers to now *)
ListenerTurn(c) ==
    /\ \E r \in conn.reads :
          /\ r.task = c
          /\ conn' = IF conn.is_connected
                     THEN [conn EXCEPT !.reads = (@ \ {r}) \cup {[task |-> c, sock |-> conn.sock]},
                                       !.op = "recv"]
                     ELSE [conn EXCEPT !.reads = @ \ {r},
                                       !.listener = HandleAfter({r}),
                                       !.op = "listener_ended"]
    /\ ConnIdle

Calls == {1, 2}

OverlapNext ==
    \/ \E token \in Tokens : connect(token)
    \/ \E ok \in BOOLEAN : ConnectOpened(ok)
    \/ \E answer \in AuthAnswers : AuthorizeAnswered(answer)
    \/ \E token \in Tokens : connect_overlapping(token)
    \/ \E ok \in BOOLEAN : OverlapOpened(ok)
    \/ \E answer \in AuthAnswers : OverlapAuthorized(answer)
    \/ \E c \in Calls : ListenerTurn(c)
    \/ ServerClose
    \/ client_stop

SpecOverlap == ConnInit /\ [][OverlapNext]_vars

(* C35: at most one listener task is alive, and the socket it reads is the one
   self.ws refers to *)
C35_OneListener ==
    /\ Cardinality(conn.reads) <= 1
    /\ \A r \in conn.reads : r.sock = conn.sock

----------------------------------------------------------------------------
(* Bot.stop and the tick callback of the client (SpecTicks) *)

(* Bot.stop of bot b returns: at once when there is no task to wait for, or
   when the awaited task has finished *)
StopCompletes(b) ==
    \/ stop(b) /\ b \notin DOMAIN stop_waiting'
    \/ stop_returns(b)

(* a Bot that is stopped: not active, and no stop() of it still waiting *)
Stopped(b) == ~bt[b].active /\ b \notin DOMAIN stop_waiting

(* C36: when Bot.stop() of a bot completes, the client's on_tick is no longer
   the bot's callback but the one the bot's loop had found, and a tick that
   arrives while the bot is stopped adds nothing to its closes *)
C36_StopRestoresCallback ==
    [][/\ \A b \in BotIds :
             (StopCompletes(b) /\ on_tick = b)
                => on_tick' = bt[b].original_tick_cb /\ on_tick' # b
       /\ \A q \in Prices, e \in Epochs :
             BotTick("R_100", q, e)
                => \A b \in BotIds : Stopped(b) => bt'[b].closes = bt[b].closes]_vars

----------------------------------------------------------------------------
(* Rejected start requests of main.py (SpecMain) *)

(* the tokens control_bot refuses: missing, or shorter than 10 characters *)
RefusedTokens == {"", "short"}

(* C37: a start request that control_bot rejects for its token leaves
   BOT_STATUS and the published signal as they were and starts no worker
   thread *)
C37_RejectedStartChangesNothing ==
    [][\A k \in RefusedTokens :
          (control_bot("start", k) /\ app.status # "ON")
             => /\ app'.status = app.status
                /\ app'.direction = app.direction
                /\ app'.workers = app.workers]_vars

----------------------------------------------------------------------------
(* The shape of the candles built from ticks (SpecFeed) *)

(* low <= open <= high and low <= close <= high *)
WellFormed(c) ==
    /\ c.low <= c.open /\ c.open <= c.high
    /\ c.low <= c.close /\ c.close <= c.high

(* C38: after any sequence of ticks every open bucket of a builder, and every
   candle a tick has committed, has low <= open <= high and
   low <= close <= high *)
C38_CandlesWellFormed ==
    /\ \A g \in DOMAIN build_candle :
          build_candle[g].start_ts # None => WellFormed(build_candle[g])
    /\ feed_op.op = "tick" =>
          \A g \in feed_op.committed : WellFormed(candles_store[g][Len(candles_store[g])])

(* a tick committed a bucket that opened at its high and closed at its low *)
C38_Witness ==
    /\ feed_op.op = "tick"
    /\ \E g \in feed_op.committed :
          LET c == candles_store[g][Len(candles_store[g])]
          IN  c.open = c.high /\ c.close = c.low /\ c.low < c.high

----------------------------------------------------------------------------
(* Bot.loop from line 41 on: the statistics of the simulated trades. In the
   program as it stands the unpacking of line 39 raises and no trade is ever
   counted; this specification lets line 39 yield an action, or none, and
   checks the code of lines 41-54 on its own. *)

(* what line 39 binds when the unpacking succeeds: no action, or a direction *)
Unpacked == { [action |-> a, raised |-> FALSE, prob |-> 0] : a \in {"", "CALL"} }

(* the loop task t wakes from asyncio.sleep(self.tf) and runs lines 41-54 on
   what line 39 bound *)
BotBodyStep(t, u, win) ==
    /\ variant = "bot"
    /\ tasks[t].pc = "sleep_tf"
    /\ ~tasks[t].cancel
    /\ u.action # "" \/ win
    /\ BotTaskEffect(t, BotLoopBody(tasks[t].owner, u), win)

(* one Bot is started and stopped; the other stays as constructed *)
TradeNext ==
    \/ start(1)
    \/ stop(1)
    \/ stop_returns(1)
    \/ \E t \in TaskIds, o \in SubscribeOutcomes, win \in BOOLEAN : BotTaskStep(t, o, win)
    \/ \E t \in TaskIds, u \in Unpacked, win \in BOOLEAN : BotBodyStep(t, u, win)

SpecTrade == TicksInit /\ [][TradeNext]_vars

(* C39: at every suspension point of the loop of a Bot, trades = wins + losses,
   and no step makes trades, wins or losses smaller *)
C39_StatsConsistent ==
    [][\A b \in BotIds :
          /\ bt'[b].stats.trades = bt'[b].stats.wins + bt'[b].stats.losses
          /\ bt'[b].stats.trades >= bt[b].stats.trades
          /\ bt'[b].stats.wins >= bt[b].stats.wins
          /\ bt'[b].stats.losses >= bt[b].stats.losses]_vars

(* a Bot that has counted a win and a loss *)
C39_Witness ==
    \E b \in BotIds :
        /\ bt[b].stats.wins > 0
        /\ bt[b].stats.losses > 0
        /\ sched_op.op = "step"
        /\ sched_op.prev = "traded"

----------------------------------------------------------------------------
(* The listener of an authorised session whose subscriber callbacks return, or
   raise *)

Installed == {"on_tick", "on_candle", "on_history_ready"}

(* a session authorised and subscribed to ticks and candles, a builder
   registered for every granularity, and the three callbacks installed; the
   callbacks are ones that return, or ones that raise an Exception *)
ListenInit ==
    /\ conn = [NewClient EXCEPT !.is_connected = TRUE, !.authorized = TRUE,
                                !.ws = "open", !.token = "valid",
                                !.listener = "running", !.sock = 1, !.handle = 1,
                                !.reads = {[task |-> 1, sock |-> 1]},
                                !.subs = {"ticks", "candles"},
                                !.ever_subs = {"ticks", "candles"},
                                !.ticks_seen = MIN_TICKS_REQUIRED,
                                !.op = "subscribe"]
    /\ callbacks \in {Installed, Installed \cup {"raising"}}
    /\ build_candle = [g \in Grans |-> EmptyBuilder]
    /\ candles_store = [g \in Grans |-> <<>>]
    /\ last_tick = None
    /\ events = {}
    /\ feed_op = [op |-> "ensure", committed |-> {}, rejected |-> {}]
    /\ app = NewApp("main.py")
    /\ calc = NoCalc
    /\ ticks_history = <<>>
    /\ variant = "bots_manager"
    /\ tb = [b \in {} |-> NewTradingBot("R_100", 60)]
    /\ bt = [b \in BotIds |-> NewBot("R_100", 60)]
    /\ tasks = [t \in TaskIds |-> FreeTask]
    /\ on_tick = None
    /\ stop_waiting = [b \in {} |-> None]
    /\ sched_op = [op |-> "init", prev |-> "", bot |-> None, arg |-> ""]

(* the history batches of a server that answers in chronological order *)
OrderedBatches(gran) ==
    { d \in HistoryBatches(gran) :
        \A i, j \in 1..Len(d) : i < j => d[i].start_ts < d[j].start_ts }

ListenNext ==
    \/ \E q \in Prices, e \in Epochs : ListenerTick(q, e)
    \/ \E g \in Grans : \E c \in CandleMsgs(g) : \E closed \in BOOLEAN :
          ListenerOhlc(g, c, closed)
    \/ \E g \in Grans : \E d \in OrderedBatches(g) : ListenerHistory(g, d)
    \/ ServerClose

SpecListen == ListenInit /\ [][ListenNext]_vars

(* C40: whether the subscriber callbacks return or raise, a tick updates the
   builders and commits the closed buckets, an ohlc message commits its candle
   and a history batch replaces the buffer, in the one way the message
   determines; and the listener task is still running afterwards *)
C40_CallbackExceptionsContained ==
    [][/\ \A q \in Prices, e \in Epochs :
             (conn'.op = "recv_tick" /\ ListenerTick(q, e)) =>
                /\ last_tick' = q
                /\ build_candle' =
                      [g \in DOMAIN build_candle |->
                          TickBuilder(build_candle[g], BucketStart(e, g), q)]
                /\ candles_store' =
                      [g \in Grans |->
                          IF g \in RollingGrans(e)
                          THEN CommitBuffer(candles_store[g], ClosedCandle(build_candle[g]))
                          ELSE candles_store[g]]
                /\ Listening'
       /\ \A g \in Grans : \A c \in CandleMsgs(g) : \A closed \in BOOLEAN :
             (conn'.op = "recv_ohlc" /\ ListenerOhlc(g, c, closed)) =>
                /\ candles_store'[g] = CommitBuffer(candles_store[g], c)
                /\ UNCHANGED build_candle
                /\ Listening'
       /\ \A g \in Grans : \A d \in OrderedBatches(g) :
             (conn'.op = "recv_history" /\ ListenerHistory(g, d)) =>
                /\ candles_store'[g] = DequeExtend(<<>>, d)
                /\ UNCHANGED build_candle
                /\ Listening']_vars

(* with raising callbacks installed, a tick closed a bucket whose candle was
   committed, on_tick and on_candle both having been called *)
C40_Witness ==
    /\ "raising" \in callbacks
    /\ feed_op.op = "tick"
    /\ feed_op.committed # {}
    /\ \E ev \in events : ev.cb = "on_tick"
    /\ \E ev \in events : ev.cb = "on_candle"
    /\ Listening

====
